---- MODULE Spec2Model ----
(***************************************************************************)
(* State-machine model of the two execute loops of n8n-nodes-crawl4j:      *)
(*   - the LLM extractor   (Crawl4aiContentExtractor/actions/              *)
(*                          llmExtractor.operation.ts, execute)            *)
(*   - the multi-URL crawl (Crawl4aiBasicCrawler/actions/                  *)
(*                          crawlMultipleUrls.operation.ts, execute)       *)
(* together with the helpers they call.                                    *)
(*                                                                         *)
(* Conventions.                                                            *)
(*   Text   a JavaScript string, as a sequence of fragments: a fragment is *)
(*          one whitespace character (" ", "\n"), one comma, or a maximal  *)
(*          run of other characters.  "" is <<>>.  A JSON document is kept *)
(*          as one fragment, commas included, and read by JsonParse.       *)
(*   JSON   a parsed JSON value, tagged by its type:                       *)
(*            [t |-> "null"]            [t |-> "bool", b |-> TRUE]         *)
(*            [t |-> "num", n |-> 1]    [t |-> "str",  s |-> <<"A">>]      *)
(*            [t |-> "arr", a |-> <<v1, v2>>]                              *)
(*            [t |-> "obj", o |-> [key |-> v]]                             *)
(*          and [t |-> "undefined"] for JavaScript's undefined.            *)
(*   Loop indices are 0-based as in the code; TLA+ sequences are 1-based.  *)
(***************************************************************************)
EXTENDS Integers, Sequences, FiniteSets, TLC

\* ------------------------------------------------------------------ bounds
\* Largest number of input items handed to execute.
MaxItems == 2

\* Largest number of fields of an attribute-list schema.
MaxFields == 2

\* Deepest nesting of the values handed to cleanExtractedData.
MaxDepth == 2

\* Largest number of times a value is cleaned in a row.
MaxCleanings == 2

\* Largest number of comma-separated entries in the URL text of one item.
MaxUrls == 3

\* ------------------------------------------------------------------ text
Undefined == [t |-> "undefined"]
JNull == [t |-> "null"]
JBool(b) == [t |-> "bool", b |-> b]
JNum(n) == [t |-> "num", n |-> n]
JStr(s) == [t |-> "str", s |-> s]
JArr(a) == [t |-> "arr", a |-> a]
JObj(o) == [t |-> "obj", o |-> o]

IsWhitespace(frag) == frag \in {" ", "\n", "\t"}

IsSeparator(frag) == IsWhitespace(frag) \/ frag = ","

\* String concatenation a + b: the run that ends a and the run that starts b
\* become one run.
Cat(a, b) ==
    IF a = <<>> THEN b
    ELSE IF b = <<>> THEN a
    ELSE IF IsSeparator(a[Len(a)]) \/ IsSeparator(Head(b)) THEN a \o b
    ELSE SubSeq(a, 1, Len(a) - 1) \o <<a[Len(a)] \o Head(b)>> \o Tail(b)

RECURSIVE TrimStart(_)
TrimStart(text) ==
    IF text = <<>> THEN <<>>
    ELSE IF IsWhitespace(Head(text)) THEN TrimStart(Tail(text))
    ELSE text

RECURSIVE TrimEnd(_)
TrimEnd(text) ==
    IF text = <<>> THEN <<>>
    ELSE IF IsWhitespace(text[Len(text)]) THEN TrimEnd(SubSeq(text, 1, Len(text) - 1))
    ELSE text

\* String.prototype.trim
Trim(text) == TrimEnd(TrimStart(text))

\* String.prototype.split(','): the pieces between the commas, empty pieces kept.
RECURSIVE SplitFrom(_, _, _)
SplitFrom(text, piece, k) ==
    IF k > Len(text) THEN <<piece>>
    ELSE IF text[k] = "," THEN <<piece>> \o SplitFrom(text, <<>>, k + 1)
    ELSE SplitFrom(text, Append(piece, text[k]), k + 1)

SplitComma(text) == SplitFrom(text, <<>>, 1)

\* Array.prototype.join(', ') of a list of texts.
RECURSIVE JoinComma(_)
JoinComma(texts) ==
    IF texts = <<>> THEN <<>>
    ELSE IF Len(texts) = 1 THEN texts[1]
    ELSE texts[1] \o <<",", " ">> \o JoinComma(Tail(texts))

\* ------------------------------------------------------------------ JSON
\* JSON.parse on the document texts the model draws from.  Surrounding
\* whitespace is insignificant to JSON.parse; anything that is not one of the
\* well-formed documents below is a SyntaxError.
JsonDocuments ==
    { "{\"items\":[{\"a\":1},{\"a\":2}]}",
      "{\"items\":[{\"title\":\"A\"}]}",
      "{\"items\":[]}",
      "{\"items\":\"none\"}",
      "{\"title\":\"A\"}",
      "[{\"a\":1}]",
      "null",
      "{\"type\":\"object\",\"properties\":{\"title\":{\"type\":\"string\"}}}",
      "{\"type\":\"object\"}",
      "{\"properties\":{\"title\":{\"type\":\"string\"}}}",
      "{\"a\":1}" }

JsonValueOf(doc) ==
    CASE doc = "{\"items\":[{\"a\":1},{\"a\":2}]}" ->
           JObj([items |-> JArr(<<JObj([a |-> JNum(1)]), JObj([a |-> JNum(2)])>>)])
      [] doc = "{\"items\":[{\"title\":\"A\"}]}" ->
           JObj([items |-> JArr(<<JObj([title |-> JStr(<<"A">>)])>>)])
      [] doc = "{\"items\":[]}" -> JObj([items |-> JArr(<<>>)])
      [] doc = "{\"items\":\"none\"}" -> JObj([items |-> JStr(<<"none">>)])
      [] doc = "{\"title\":\"A\"}" -> JObj([title |-> JStr(<<"A">>)])
      [] doc = "[{\"a\":1}]" -> JArr(<<JObj([a |-> JNum(1)])>>)
      [] doc = "null" -> JNull
      [] doc = "{\"type\":\"object\",\"properties\":{\"title\":{\"type\":\"string\"}}}" ->
           JObj([type |-> JStr(<<"object">>),
                 properties |-> JObj([title |-> JObj([type |-> JStr(<<"string">>)])])])
      [] doc = "{\"type\":\"object\"}" -> JObj([type |-> JStr(<<"object">>)])
      [] doc = "{\"properties\":{\"title\":{\"type\":\"string\"}}}" ->
           JObj([properties |-> JObj([title |-> JObj([type |-> JStr(<<"string">>)])])])
      [] doc = "{\"a\":1}" -> JObj([a |-> JNum(1)])

\* JSON.parse: [ok |-> TRUE, value |-> v], or [ok |-> FALSE] for a SyntaxError.
JsonParse(text) ==
    LET body == Trim(text)
    IN IF Len(body) = 1 /\ body[1] \in JsonDocuments
       THEN [ok |-> TRUE, value |-> JsonValueOf(body[1])]
       ELSE [ok |-> FALSE]

\* JavaScript truthiness of a value.
Truthy(v) ==
    CASE v.t = "undefined" -> FALSE
      [] v.t = "null" -> FALSE
      [] v.t = "bool" -> v.b
      [] v.t = "num" -> v.n # 0
      [] v.t = "str" -> v.s # <<>>
      [] OTHER -> TRUE

\* Property read v.key on a non-nullish value.
GetProp(v, key) ==
    IF v.t = "obj" /\ key \in DOMAIN v.o THEN v.o[key] ELSE Undefined

\* Array.isArray
IsArray(v) == v.t = "arr"

\* ------------------------------------------------------------------ URLs
\* The runs the model uses in URL texts that the WHATWG URL parser accepts as
\* an absolute URL; every other run of the model ("not-a-url") has no scheme.
UrlWellFormed == {"https://x.test", "https://y.test"}

\* new URL(url) succeeds: the parser strips leading and trailing whitespace,
\* and whitespace inside the host or a missing scheme is a failure.
isValidUrl(url) ==
    LET u == Trim(url)
    IN Len(u) = 1 /\ u[1] \in UrlWellFormed

safeJsonParse(jsonString, defaultValue) ==
    LET r == JsonParse(jsonString)
    IN IF r.ok THEN r.value ELSE defaultValue

\* ------------------------------------------------------------------ objects
EmptyObject == JObj(<<>>)

\* One optional entry of an object under construction.
Entry(present, key, value) == IF present THEN key :> value ELSE <<>>

\* a || b
OrElse(a, b) == IF Truthy(a) THEN a ELSE b

\* Convert n8n options to the browser configuration (the fields the two
\* execute loops can set through the options the model draws from).
createBrowserConfig(options) ==
    JObj([ browserType |-> GetProp(options, "browserType"),
           headless |-> JBool(GetProp(options, "headless") # JBool(FALSE)),
           javaScriptEnabled |-> JBool(GetProp(options, "javaScriptEnabled") # JBool(FALSE)),
           viewport |->
             JObj([ width |-> IF Truthy(GetProp(options, "viewportWidth"))
                              THEN GetProp(options, "viewportWidth") ELSE JNum(1280),
                    height |-> IF Truthy(GetProp(options, "viewportHeight"))
                               THEN GetProp(options, "viewportHeight") ELSE JNum(800) ]),
           verbose |-> JBool(GetProp(options, "verbose") = JBool(TRUE)),
           textMode |-> JBool(GetProp(options, "textMode") = JBool(TRUE)),
           lightMode |-> JBool(GetProp(options, "lightMode") = JBool(TRUE)),
           enableStealth |-> JBool(GetProp(options, "enableStealth") = JBool(TRUE)) ])

\* Convert n8n options to the crawler run configuration: a fresh object with
\* exactly the keys below, each read from the option of the same name.
\* excludedTags, geolocation and rateLimitConfig have the values they get when
\* the options do not set them, which the options drawn here never do.
createCrawlerRunConfig(options) ==
    JObj([ cacheMode |-> OrElse(GetProp(options, "cacheMode"), JStr(<<"enabled">>)),
           streamEnabled |-> JBool(GetProp(options, "streamEnabled") = JBool(TRUE)),
           stream |-> JBool(GetProp(options, "stream") = JBool(TRUE)
                            \/ GetProp(options, "streamEnabled") = JBool(TRUE)),
           pageTimeout |-> IF Truthy(GetProp(options, "pageTimeout"))
                           THEN GetProp(options, "pageTimeout") ELSE JNum(30000),
           jsOnly |-> JBool(GetProp(options, "jsOnly") = JBool(TRUE)),
           cssSelector |-> IF Truthy(GetProp(options, "cssSelector"))
                           THEN GetProp(options, "cssSelector") ELSE Undefined,
           excludeExternalLinks |-> JBool(GetProp(options, "excludeExternalLinks") = JBool(TRUE)),
           checkRobotsTxt |-> JBool(GetProp(options, "checkRobotsTxt") = JBool(TRUE)),
           wordCountThreshold |-> IF Truthy(GetProp(options, "wordCountThreshold"))
                                  THEN GetProp(options, "wordCountThreshold") ELSE JNum(0),
           sessionId |-> IF Truthy(GetProp(options, "sessionId"))
                         THEN GetProp(options, "sessionId") ELSE Undefined,
           screenshot |-> JBool(GetProp(options, "screenshot") = JBool(TRUE)),
           pdf |-> JBool(GetProp(options, "pdf") = JBool(TRUE)),
           enableRateLimiting |-> JBool(GetProp(options, "enableRateLimiting") = JBool(TRUE)),
           jsCode |-> IF Truthy(GetProp(options, "jsCode"))
                      THEN GetProp(options, "jsCode") ELSE Undefined,
           excludedTags |-> JArr(<<>>),
           waitFor |-> IF Truthy(GetProp(options, "waitFor"))
                       THEN GetProp(options, "waitFor") ELSE Undefined,
           captureMhtml |-> JBool(GetProp(options, "captureMhtml") = JBool(TRUE)),
           locale |-> IF Truthy(GetProp(options, "locale"))
                      THEN GetProp(options, "locale") ELSE Undefined,
           timezoneId |-> IF Truthy(GetProp(options, "timezoneId"))
                          THEN GetProp(options, "timezoneId") ELSE Undefined,
           geolocation |-> Undefined,
           rateLimitConfig |-> Undefined,
           memoryThresholdPercent |-> IF Truthy(GetProp(options, "memoryThresholdPercent"))
                                      THEN GetProp(options, "memoryThresholdPercent")
                                      ELSE Undefined,
           checkInterval |-> IF Truthy(GetProp(options, "checkInterval"))
                             THEN GetProp(options, "checkInterval") ELSE Undefined,
           maxSessionPermit |-> IF Truthy(GetProp(options, "maxSessionPermit"))
                                THEN GetProp(options, "maxSessionPermit") ELSE Undefined,
           displayMode |-> IF Truthy(GetProp(options, "displayMode"))
                           THEN GetProp(options, "displayMode") ELSE Undefined ])

\* ------------------------------------------------------------------ strategy
\* createLlmExtractionStrategy(schema, instruction, provider, apiKey, extraArgs,
\* ollamaUrl, model).  provider and instruction are texts; apiKey, extraArgs,
\* ollamaUrl and model are values (Undefined when the argument is not passed).
\* Mutant of LlmProviderParams: the key is attached for the local provider too.
LlmProviderParamsTokenForAll(provider, apiKey, ollamaUrl, model) ==
    IF provider = <<"ollama">>
    THEN ("provider" :> JStr(IF Truthy(model) THEN Cat(<<"ollama/">>, model.s)
                             ELSE <<"ollama/gemma3:1b">>))
         @@ Entry(Truthy(ollamaUrl), "base_url", ollamaUrl)
         @@ Entry(Truthy(apiKey) /\ apiKey # JStr(<<"none">>) /\ Trim(apiKey.s) # <<>>,
                  "api_token", apiKey)
    ELSE LET fullProvider == IF Truthy(model) THEN Cat(Cat(provider, <<"/">>), model.s)
                             ELSE provider
         IN ("provider" :> JStr(IF fullProvider # <<>> THEN fullProvider
                                ELSE <<"openai/gpt-4o">>))
            @@ Entry(Truthy(apiKey) /\ apiKey # JStr(<<"none">>) /\ Trim(apiKey.s) # <<>>,
                     "api_token", apiKey)

\* Mutant of LlmProviderParams: the local provider is identified by the bare
\* model name.
LlmProviderParamsBareModel(provider, apiKey, ollamaUrl, model) ==
    IF provider = <<"ollama">>
    THEN ("provider" :> JStr(IF Truthy(model) THEN model.s
                             ELSE <<"ollama/gemma3:1b">>))
         @@ Entry(Truthy(ollamaUrl), "base_url", ollamaUrl)
    ELSE LET fullProvider == IF Truthy(model) THEN Cat(Cat(provider, <<"/">>), model.s)
                             ELSE provider
         IN ("provider" :> JStr(IF fullProvider # <<>> THEN fullProvider
                                ELSE <<"openai/gpt-4o">>))
            @@ Entry(Truthy(apiKey) /\ apiKey # JStr(<<"none">>) /\ Trim(apiKey.s) # <<>>,
                     "api_token", apiKey)

LlmProviderParams(provider, apiKey, ollamaUrl, model) ==
    IF provider = <<"ollama">>
    THEN ("provider" :> JStr(IF Truthy(model) THEN Cat(<<"ollama/">>, model.s)
                             ELSE <<"ollama/gemma3:1b">>))
         @@ Entry(Truthy(ollamaUrl), "base_url", ollamaUrl)
    ELSE LET fullProvider == IF Truthy(model) THEN Cat(Cat(provider, <<"/">>), model.s)
                             ELSE provider
         IN ("provider" :> JStr(IF fullProvider # <<>> THEN fullProvider
                                ELSE <<"openai/gpt-4o">>))
            @@ Entry(Truthy(apiKey) /\ apiKey # JStr(<<"none">>) /\ Trim(apiKey.s) # <<>>,
                     "api_token", apiKey)

\* Mutant of LlmSamplingParams: a parameter is copied when it is truthy.
LlmSamplingParamsSkippingZero(extraArgs) ==
    IF ~Truthy(extraArgs) THEN <<>>
    ELSE Entry(Truthy(GetProp(extraArgs, "temperature")),
               "temperature", GetProp(extraArgs, "temperature"))
         @@ Entry(Truthy(GetProp(extraArgs, "max_tokens")),
                  "max_tokens", GetProp(extraArgs, "max_tokens"))
         @@ Entry(Truthy(GetProp(extraArgs, "top_p")),
                  "top_p", GetProp(extraArgs, "top_p"))
         @@ Entry(Truthy(GetProp(extraArgs, "frequency_penalty")),
                  "frequency_penalty", GetProp(extraArgs, "frequency_penalty"))
         @@ Entry(Truthy(GetProp(extraArgs, "presence_penalty")),
                  "presence_penalty", GetProp(extraArgs, "presence_penalty"))

LlmSamplingParams(extraArgs) ==
    IF ~Truthy(extraArgs) THEN <<>>
    ELSE Entry(GetProp(extraArgs, "temperature") # Undefined,
               "temperature", GetProp(extraArgs, "temperature"))
         @@ Entry(GetProp(extraArgs, "max_tokens") # Undefined,
                  "max_tokens", GetProp(extraArgs, "max_tokens"))
         @@ Entry(GetProp(extraArgs, "top_p") # Undefined,
                  "top_p", GetProp(extraArgs, "top_p"))
         @@ Entry(GetProp(extraArgs, "frequency_penalty") # Undefined,
                  "frequency_penalty", GetProp(extraArgs, "frequency_penalty"))
         @@ Entry(GetProp(extraArgs, "presence_penalty") # Undefined,
                  "presence_penalty", GetProp(extraArgs, "presence_penalty"))

\* Mutant of createLlmExtractionStrategy: extraArgs can switch chunking on.
createLlmExtractionStrategyWithChunkingOption(schema, instruction, provider, apiKey, extraArgs, ollamaUrl, model) ==
    [ type |-> "LLMExtractionStrategy",
      params |->
        [ llm_config |->
            [ type |-> "LLMConfig",
              params |-> LlmSamplingParams(extraArgs)
                         @@ LlmProviderParams(provider, apiKey, ollamaUrl, model) ],
          instruction |-> instruction,
          schema |-> [type |-> "dict", value |-> schema],
          extraction_type |-> "schema",
          apply_chunking |-> Truthy(extraArgs) /\ Truthy(GetProp(extraArgs, "apply_chunking")),
          force_json_response |-> TRUE ] ]

\* Mutant of createLlmExtractionStrategy: the schema is passed on bare, not
\* wrapped as a dict.
createLlmExtractionStrategyWithBareSchema(schema, instruction, provider, apiKey, extraArgs, ollamaUrl, model) ==
    [ type |-> "LLMExtractionStrategy",
      params |->
        [ llm_config |->
            [ type |-> "LLMConfig",
              params |-> LlmSamplingParams(extraArgs)
                         @@ LlmProviderParams(provider, apiKey, ollamaUrl, model) ],
          instruction |-> instruction,
          schema |-> schema,
          extraction_type |-> "schema",
          apply_chunking |-> FALSE,
          force_json_response |-> TRUE ] ]

createLlmExtractionStrategy(schema, instruction, provider, apiKey, extraArgs, ollamaUrl, model) ==
    [ type |-> "LLMExtractionStrategy",
      params |->
        [ llm_config |->
            [ type |-> "LLMConfig",
              params |-> LlmSamplingParams(extraArgs)
                         @@ LlmProviderParams(provider, apiKey, ollamaUrl, model) ],
          instruction |-> instruction,
          schema |-> [type |-> "dict", value |-> schema],
          extraction_type |-> "schema",
          apply_chunking |-> FALSE,
          force_json_response |-> TRUE ] ]

\* ------------------------------------------------------------------ results
\* A crawl result is a record [url, success] with the optional fields
\* extracted_content (a text) and error_message (a text).

\* parseExtractedJson(result): the parsed extracted_content, or null when the
\* field is absent or is not valid JSON; it never throws.
parseExtractedJson(result) ==
    IF "extracted_content" \notin DOMAIN result THEN JNull
    ELSE safeJsonParse(result.extracted_content, JNull)

\* formatExtractionResult(result, extractedData, includeFullText): one output
\* record holding the extracted value as it is, with the result's url and
\* success flag, the error message of a failed result and, on request, the
\* page text.
formatExtractionResult(result, extractedData, includeFullText) ==
    [url |-> result.url, success |-> result.success, data |-> extractedData]
    @@ Entry("error_message" \in DOMAIN result, "error",
             IF "error_message" \in DOMAIN result THEN result.error_message ELSE <<>>)
    @@ Entry(Truthy(includeFullText) /\ "markdown" \in DOMAIN result, "text",
             IF "markdown" \in DOMAIN result THEN result.markdown ELSE <<>>)

\* formatCrawlResult(result, includeMedia, verboseResponse): one output record
\* per crawl result.
formatCrawlResult(result, includeMedia, verboseResponse) ==
    [url |-> result.url, success |-> result.success]
    @@ Entry("error_message" \in DOMAIN result, "error",
             IF "error_message" \in DOMAIN result THEN result.error_message ELSE <<>>)
    @@ Entry(Truthy(verboseResponse) /\ "markdown" \in DOMAIN result, "markdown",
             IF "markdown" \in DOMAIN result THEN result.markdown ELSE <<>>)

\* ------------------------------------------------------------------ errors
\* The words of a message, joined by single spaces (no space before a comma).
RECURSIVE Words(_)
Words(ws) ==
    IF ws = <<>> THEN <<>>
    ELSE IF Len(ws) = 1 THEN <<ws[1]>>
    ELSE IF ws[2] = "," THEN <<ws[1]>> \o Words(Tail(ws))
    ELSE <<ws[1], " ">> \o Words(Tail(ws))

\* The JavaScript string of a text (used where a text becomes an object key).
RECURSIVE Flatten(_)
Flatten(text) == IF text = <<>> THEN "" ELSE Head(text) \o Flatten(Tail(text))

NodeOperationError(message) == [name |-> "NodeOperationError", message |-> message]

PlainError(message) == [name |-> "Error", message |-> message]

\* What the engine throws; the wording is the engine's.
TypeErrorOf(message) == [name |-> "TypeError", message |-> message]

SyntaxErrorMessage == Words(<<"Unexpected", "token">>)

NullPropertyMessage == Words(<<"Cannot", "read", "properties", "of", "null">>)

Raise(error) == [ok |-> FALSE, error |-> error]

\* ------------------------------------------------------------------ LLM extractor: one iteration up to the request
\* Mutant of LlmValidation: the URL is not checked for being well-formed.
LlmValidationWithoutUrlCheck(p, credentials) ==
    IF p.url = <<>>
    THEN <<NodeOperationError(Words(<<"URL", "cannot", "be", "empty.">>))>>
    ELSE IF p.instruction = <<>>
    THEN <<NodeOperationError(Words(<<"Extraction", "instructions", "cannot", "be", "empty.">>))>>
    ELSE IF p.schemaType = "attributeDescriptions" /\ Len(p.schemaFieldsValues) = 0
    THEN <<NodeOperationError(Words(<<"At", "least", "one", "schema", "field", "must", "be",
            "defined", "when", "using", "\"From", "Attribute", "Descriptions\".">>))>>
    ELSE IF p.schemaType = "jsonExample" /\ (p.jsonExample = <<>> \/ Trim(p.jsonExample) = <<>>)
    THEN <<NodeOperationError(Words(<<"JSON", "Example", "cannot", "be", "empty", "when",
            "using", "\"Generate", "From", "JSON", "Example\".">>))>>
    ELSE IF p.schemaType = "jsonSchema" /\ (p.jsonSchema = <<>> \/ Trim(p.jsonSchema) = <<>>)
    THEN <<NodeOperationError(Words(<<"JSON", "Schema", "cannot", "be", "empty", "when",
            "using", "\"Define", "using", "JSON", "Schema\".">>))>>
    ELSE <<>>

\* Mutant of LlmValidation: an empty attribute list passes.
LlmValidationWithoutFieldCheck(p, credentials) ==
    IF p.url = <<>>
    THEN <<NodeOperationError(Words(<<"URL", "cannot", "be", "empty.">>))>>
    ELSE IF ~isValidUrl(p.url)
    THEN <<NodeOperationError(Cat(Words(<<"Invalid", "URL:">>) \o <<" ">>, p.url))>>
    ELSE IF p.instruction = <<>>
    THEN <<NodeOperationError(Words(<<"Extraction", "instructions", "cannot", "be", "empty.">>))>>
    ELSE IF p.schemaType = "jsonExample" /\ (p.jsonExample = <<>> \/ Trim(p.jsonExample) = <<>>)
    THEN <<NodeOperationError(Words(<<"JSON", "Example", "cannot", "be", "empty", "when",
            "using", "\"Generate", "From", "JSON", "Example\".">>))>>
    ELSE IF p.schemaType = "jsonSchema" /\ (p.jsonSchema = <<>> \/ Trim(p.jsonSchema) = <<>>)
    THEN <<NodeOperationError(Words(<<"JSON", "Schema", "cannot", "be", "empty", "when",
            "using", "\"Define", "using", "JSON", "Schema\".">>))>>
    ELSE IF Truthy(GetProp(p.llmOptions, "model")) /\ ~Truthy(GetProp(credentials, "enableLlm"))
    THEN <<NodeOperationError(Words(<<"LLM", "features", "must", "be", "enabled", "in",
            "credentials", "to", "use", "custom", "model.">>))>>
    ELSE <<>>

\* Mutant of LlmValidation: the attribute list is checked in single-item mode
\* only.
LlmValidationFieldCheckSingleOnly(p, credentials) ==
    IF p.url = <<>>
    THEN <<NodeOperationError(Words(<<"URL", "cannot", "be", "empty.">>))>>
    ELSE IF ~isValidUrl(p.url)
    THEN <<NodeOperationError(Cat(Words(<<"Invalid", "URL:">>) \o <<" ">>, p.url))>>
    ELSE IF p.instruction = <<>>
    THEN <<NodeOperationError(Words(<<"Extraction", "instructions", "cannot", "be", "empty.">>))>>
    ELSE IF /\ p.schemaType = "attributeDescriptions"
            /\ Len(p.schemaFieldsValues) = 0
            /\ GetProp(p.options, "extractMultiple") = JBool(FALSE)
    THEN <<NodeOperationError(Words(<<"At", "least", "one", "schema", "field", "must", "be",
            "defined", "when", "using", "\"From", "Attribute", "Descriptions\".">>))>>
    ELSE IF p.schemaType = "jsonExample" /\ (p.jsonExample = <<>> \/ Trim(p.jsonExample) = <<>>)
    THEN <<NodeOperationError(Words(<<"JSON", "Example", "cannot", "be", "empty", "when",
            "using", "\"Generate", "From", "JSON", "Example\".">>))>>
    ELSE IF p.schemaType = "jsonSchema" /\ (p.jsonSchema = <<>> \/ Trim(p.jsonSchema) = <<>>)
    THEN <<NodeOperationError(Words(<<"JSON", "Schema", "cannot", "be", "empty", "when",
            "using", "\"Define", "using", "JSON", "Schema\".">>))>>
    ELSE IF Truthy(GetProp(p.llmOptions, "model")) /\ ~Truthy(GetProp(credentials, "enableLlm"))
    THEN <<NodeOperationError(Words(<<"LLM", "features", "must", "be", "enabled", "in",
            "credentials", "to", "use", "custom", "model.">>))>>
    ELSE <<>>

\* Mutant of LlmValidation: an empty instruction passes.
LlmValidationWithoutInstructionCheck(p, credentials) ==
    IF p.url = <<>>
    THEN <<NodeOperationError(Words(<<"URL", "cannot", "be", "empty.">>))>>
    ELSE IF ~isValidUrl(p.url)
    THEN <<NodeOperationError(Cat(Words(<<"Invalid", "URL:">>) \o <<" ">>, p.url))>>
    ELSE IF p.schemaType = "attributeDescriptions" /\ Len(p.schemaFieldsValues) = 0
    THEN <<NodeOperationError(Words(<<"At", "least", "one", "schema", "field", "must", "be",
            "defined", "when", "using", "\"From", "Attribute", "Descriptions\".">>))>>
    ELSE IF p.schemaType = "jsonExample" /\ (p.jsonExample = <<>> \/ Trim(p.jsonExample) = <<>>)
    THEN <<NodeOperationError(Words(<<"JSON", "Example", "cannot", "be", "empty", "when",
            "using", "\"Generate", "From", "JSON", "Example\".">>))>>
    ELSE IF p.schemaType = "jsonSchema" /\ (p.jsonSchema = <<>> \/ Trim(p.jsonSchema) = <<>>)
    THEN <<NodeOperationError(Words(<<"JSON", "Schema", "cannot", "be", "empty", "when",
            "using", "\"Define", "using", "JSON", "Schema\".">>))>>
    ELSE IF Truthy(GetProp(p.llmOptions, "model")) /\ ~Truthy(GetProp(credentials, "enableLlm"))
    THEN <<NodeOperationError(Words(<<"LLM", "features", "must", "be", "enabled", "in",
            "credentials", "to", "use", "custom", "model.">>))>>
    ELSE <<>>

\* The configuration checks of one item, in the order of the code: the first
\* one that fails, or <<>> when all pass.
LlmValidation(p, credentials) ==
    IF p.url = <<>>
    THEN <<NodeOperationError(Words(<<"URL", "cannot", "be", "empty.">>))>>
    ELSE IF ~isValidUrl(p.url)
    THEN <<NodeOperationError(Cat(Words(<<"Invalid", "URL:">>) \o <<" ">>, p.url))>>
    ELSE IF p.instruction = <<>>
    THEN <<NodeOperationError(Words(<<"Extraction", "instructions", "cannot", "be", "empty.">>))>>
    ELSE IF p.schemaType = "attributeDescriptions" /\ Len(p.schemaFieldsValues) = 0
    THEN <<NodeOperationError(Words(<<"At", "least", "one", "schema", "field", "must", "be",
            "defined", "when", "using", "\"From", "Attribute", "Descriptions\".">>))>>
    ELSE IF p.schemaType = "jsonExample" /\ (p.jsonExample = <<>> \/ Trim(p.jsonExample) = <<>>)
    THEN <<NodeOperationError(Words(<<"JSON", "Example", "cannot", "be", "empty", "when",
            "using", "\"Generate", "From", "JSON", "Example\".">>))>>
    ELSE IF p.schemaType = "jsonSchema" /\ (p.jsonSchema = <<>> \/ Trim(p.jsonSchema) = <<>>)
    THEN <<NodeOperationError(Words(<<"JSON", "Schema", "cannot", "be", "empty", "when",
            "using", "\"Define", "using", "JSON", "Schema\".">>))>>
    ELSE IF Truthy(GetProp(p.llmOptions, "model")) /\ ~Truthy(GetProp(credentials, "enableLlm"))
    THEN <<NodeOperationError(Words(<<"LLM", "features", "must", "be", "enabled", "in",
            "credentials", "to", "use", "custom", "model.">>))>>
    ELSE <<>>

\* const extractMultiple = options.extractMultiple !== false
ExtractMultipleOf(options) == GetProp(options, "extractMultiple") # JBool(FALSE)

\* schemaFieldsValues.forEach(...): the properties keyed by field name (a later
\* field of the same name replaces an earlier one) and the required names.
SchemaProperties(fields) ==
    LET names == {Flatten(fields[k].o.name.s) : k \in 1..Len(fields)}
        last(nm) == CHOOSE k \in 1..Len(fields) :
                       /\ Flatten(fields[k].o.name.s) = nm
                       /\ \A m \in (k + 1)..Len(fields) : Flatten(fields[m].o.name.s) # nm
    IN [nm \in names |->
          JObj([ name |-> fields[last(nm)].o.name,
                 type |-> GetProp(fields[last(nm)], "fieldType"),
                 description |-> IF Truthy(GetProp(fields[last(nm)], "description"))
                                 THEN GetProp(fields[last(nm)], "description")
                                 ELSE Undefined ])]

IsRequiredField(field) == GetProp(field, "required") = JBool(TRUE)

RequiredFields(fields) ==
    LET req == SelectSeq(fields, IsRequiredField)
    IN [k \in 1..Len(req) |-> req[k].o.name]

ItemsWrapperSchema(description) ==
    JObj([ title |-> JStr(<<"ExtractedItems">>),
           type |-> JStr(<<"object">>),
           properties |-> JObj([ items |-> JObj([ name |-> JStr(<<"items">>),
                                                  type |-> JStr(<<"array">>),
                                                  description |-> JStr(description) ]) ]),
           required |-> JArr(<<JStr(<<"items">>)>>) ])

\* Mutant of ExplicitSchemaOf: a schema with only one of the two fields passes.
ExplicitSchemaOfEitherField(jsonSchema) ==
    LET parsed == JsonParse(jsonSchema)
        invalid == Words(<<"Invalid", "JSON", "Schema:">>) \o <<" ">>
    IN IF ~parsed.ok
       THEN Raise(NodeOperationError(invalid \o SyntaxErrorMessage))
       ELSE IF parsed.value.t = "null"
       THEN Raise(NodeOperationError(invalid \o NullPropertyMessage))
       ELSE IF ~Truthy(GetProp(parsed.value, "type"))
               /\ ~Truthy(GetProp(parsed.value, "properties"))
       THEN Raise(NodeOperationError(invalid \o Words(<<"JSON", "Schema", "must",
                  "have", "\"type\"", "and", "\"properties\"", "fields">>)))
       ELSE [ok |-> TRUE, schema |-> parsed.value]

\* The explicit JSON schema: JSON.parse, then the check that it has a type
\* and properties; whatever is thrown inside becomes a NodeOperationError.
ExplicitSchemaOf(jsonSchema) ==
    LET parsed == JsonParse(jsonSchema)
        invalid == Words(<<"Invalid", "JSON", "Schema:">>) \o <<" ">>
    IN IF ~parsed.ok
       THEN Raise(NodeOperationError(invalid \o SyntaxErrorMessage))
       ELSE IF parsed.value.t = "null"
       THEN Raise(NodeOperationError(invalid \o NullPropertyMessage))
       ELSE IF ~Truthy(GetProp(parsed.value, "type"))
               \/ ~Truthy(GetProp(parsed.value, "properties"))
       THEN Raise(NodeOperationError(invalid \o Words(<<"JSON", "Schema", "must",
                  "have", "\"type\"", "and", "\"properties\"", "fields">>)))
       ELSE [ok |-> TRUE, schema |-> parsed.value]

\* The schema of the strategy, or the error the schema step raises.
LlmSchemaOf(p) ==
    LET extractMultiple == ExtractMultipleOf(p.options)
    IN CASE p.schemaType = "attributeDescriptions" ->
              [ ok |-> TRUE,
                schema |->
                  IF extractMultiple
                  THEN ItemsWrapperSchema(Words(<<"Array", "of", "extracted", "items">>))
                  ELSE JObj([ title |-> JStr(<<"ExtractedData">>),
                              type |-> JStr(<<"object">>),
                              properties |-> JObj(SchemaProperties(p.schemaFieldsValues)),
                              required |-> IF Len(RequiredFields(p.schemaFieldsValues)) > 0
                                           THEN JArr([k \in 1..Len(RequiredFields(p.schemaFieldsValues))
                                                        |-> RequiredFields(p.schemaFieldsValues)[k]])
                                           ELSE Undefined ]) ]
         [] p.schemaType = "jsonExample" ->
              [ ok |-> TRUE,
                schema |->
                  IF extractMultiple
                  THEN ItemsWrapperSchema(Words(<<"Array", "of", "extracted", "items",
                                                  "matching", "the", "example", "structure">>))
                  ELSE JObj([ title |-> JStr(<<"ExtractedData">>),
                              type |-> JStr(<<"object">>),
                              properties |-> JObj([ data |-> JObj([
                                  name |-> JStr(<<"data">>),
                                  type |-> JStr(<<"object">>),
                                  description |-> JStr(Words(<<"Extracted", "data", "matching",
                                                              "the", "example", "structure">>)) ]) ]),
                              required |-> JArr(<<JStr(<<"data">>)>>) ]) ]
         [] p.schemaType = "jsonSchema" -> ExplicitSchemaOf(p.jsonSchema)
         [] OTHER ->
              Raise(NodeOperationError(Cat(Words(<<"Unknown", "schema", "type:">>) \o <<" ">>,
                                           <<p.schemaType>>)))

\* schemaFieldsValues.map(f => f.name).join(', ')
FieldNames(fields) == JoinComma([k \in 1..Len(fields) |-> fields[k].o.name.s])

\* Mutant of EnhancedInstruction: only the attribute list gets a directive.
EnhancedInstructionAttributeOnly(p) ==
    IF p.schemaType = "attributeDescriptions" /\ ExtractMultipleOf(p.options)
    THEN p.instruction \o <<"\n", "\n">>
         \o Words(<<"Please", "extract", "ALL", "items", "found", "on", "the", "page.",
                    "Return", "them", "as", "an", "array", "of", "objects", ",", "where",
                    "each", "object", "contains", "the", "fields:">>)
         \o <<" ">>
         \o Cat(FieldNames(p.schemaFieldsValues),
                Words(<<".", "If", "no", "items", "are", "found", ",", "return", "an",
                        "empty", "array.">>))
    ELSE p.instruction

\* The instruction sent with the strategy.
EnhancedInstruction(p) ==
    LET extractMultiple == ExtractMultipleOf(p.options)
        para == <<"\n", "\n">>
    IN CASE p.schemaType = "attributeDescriptions" /\ extractMultiple ->
              p.instruction \o para
              \o Words(<<"Please", "extract", "ALL", "items", "found", "on", "the", "page.",
                         "Return", "them", "as", "an", "array", "of", "objects", ",", "where",
                         "each", "object", "contains", "the", "fields:">>)
              \o <<" ">>
              \o Cat(FieldNames(p.schemaFieldsValues),
                     Words(<<".", "If", "no", "items", "are", "found", ",", "return", "an",
                             "empty", "array.">>))
         [] p.schemaType = "jsonExample" /\ extractMultiple ->
              p.instruction \o para
              \o Words(<<"Please", "extract", "ALL", "items", "found", "on", "the", "page", "and",
                         "return", "them", "in", "the", "same", "structure", "as", "the",
                         "provided", "JSON", "example.", "If", "no", "items", "are", "found", ",",
                         "return", "an", "empty", "array", "or", "empty", "object", "as",
                         "appropriate.">>)
         [] p.schemaType = "jsonExample" /\ ~extractMultiple ->
              p.instruction \o para
              \o Words(<<"Please", "extract", "the", "data", "and", "return", "it", "in", "the",
                         "same", "structure", "as", "the", "provided", "JSON", "example.">>)
         [] p.schemaType = "jsonSchema" /\ extractMultiple ->
              p.instruction \o para
              \o Words(<<"Please", "extract", "ALL", "items", "found", "on", "the", "page", "and",
                         "return", "them", "according", "to", "the", "provided", "JSON", "schema.",
                         "If", "no", "items", "are", "found", ",", "return", "an", "empty", "array",
                         "or", "empty", "object", "as", "appropriate.">>)
         [] p.schemaType = "jsonSchema" /\ ~extractMultiple ->
              p.instruction \o para
              \o Words(<<"Please", "extract", "the", "data", "and", "return", "it", "according",
                         "to", "the", "provided", "JSON", "schema.">>)
         [] OTHER -> p.instruction

\* The runs of the model that start with http:// or https://.
WithProtocol == {"http://localhost:11434", "https://ollama.test"}

\* Ensure the Ollama URL has a protocol.
OllamaUrlOf(credentials) ==
    LET provider == OrElse(GetProp(credentials, "llmProvider"), JStr(<<"openai">>))
        ollamaUrl == GetProp(credentials, "ollamaUrl")
    IN IF provider = JStr(<<"ollama">>) /\ Truthy(ollamaUrl)
       THEN LET trimmed == Trim(ollamaUrl.s)
            IN IF trimmed # <<>> /\ Head(trimmed) \in WithProtocol
               THEN JStr(trimmed)
               ELSE JStr(Cat(<<"http://">>, trimmed))
       ELSE ollamaUrl

\* Prepare extra arguments for the LLM.
ExtraArgsOf(llmOptions) ==
    JObj(Entry(GetProp(llmOptions, "temperature") # Undefined,
               "temperature", GetProp(llmOptions, "temperature"))
         @@ Entry(GetProp(llmOptions, "maxTokens") # Undefined,
                  "max_tokens", GetProp(llmOptions, "maxTokens"))
         @@ Entry(GetProp(llmOptions, "topP") # Undefined,
                  "top_p", GetProp(llmOptions, "topP"))
         @@ Entry(GetProp(llmOptions, "frequencyPenalty") # Undefined,
                  "frequency_penalty", GetProp(llmOptions, "frequencyPenalty"))
         @@ Entry(GetProp(llmOptions, "presencePenalty") # Undefined,
                  "presence_penalty", GetProp(llmOptions, "presencePenalty")))

\* The extraction strategy execute builds for an item whose schema is `schema`.
LlmStrategyOf(p, credentials, schema) ==
    createLlmExtractionStrategy(
        schema,
        EnhancedInstruction(p),
        OrElse(GetProp(credentials, "llmProvider"), JStr(<<"openai">>)).s,
        GetProp(credentials, "apiKey"),
        ExtraArgsOf(p.llmOptions),
        OllamaUrlOf(credentials),
        JStr(Trim(OrElse(GetProp(p.llmOptions, "model"), JStr(<<"gpt-4o">>)).s)))

\* The synchronous part of one iteration, from the parameter reads to the call
\* of getCrawl4aiClient: the error it throws, or the arguments of the crawl
\* request it has prepared.
LlmPrepare(p, credentials) ==
    LET invalid == LlmValidation(p, credentials)
        built == LlmSchemaOf(p)
    IN IF invalid # <<>> THEN Raise(invalid[1])
       ELSE IF ~built.ok THEN built
       ELSE [ ok |-> TRUE,
              params |-> p,
              url |-> p.url,
              config |-> [ browserConfig |-> createBrowserConfig(p.browserOptions),
                           extractionStrategy |-> LlmStrategyOf(p, credentials, built.schema),
                           cacheMode |-> OrElse(GetProp(p.options, "cacheMode"),
                                                JStr(<<"enabled">>)),
                           jsCode |-> GetProp(p.browserOptions, "jsCode"),
                           cssSelector |-> GetProp(p.options, "cssSelector") ],
              extractMultiple |-> ExtractMultipleOf(p.options),
              includeFullText |-> GetProp(p.options, "includeFullText") ]

\* ------------------------------------------------------------------ LLM extractor: the records of one result
\* Mutant of MultipleItemRecords: itemIndex counts from 1.
MultipleItemRecordsOneBased(result, items, includeFullText, i) ==
    [ k \in 1..Len(items) |->
        [ json |-> ("itemIndex" :> k) @@ ("totalItems" :> Len(items))
                   @@ formatExtractionResult(result, items[k], includeFullText),
          pairedItem |-> [item |-> i] ] ]

\* Mutant of MultipleItemRecords: a record is paired with the index of its
\* element instead of the index of the input item.
MultipleItemRecordsPairedWithElement(result, items, includeFullText, i) ==
    [ k \in 1..Len(items) |->
        [ json |-> ("itemIndex" :> (k - 1)) @@ ("totalItems" :> Len(items))
                   @@ formatExtractionResult(result, items[k], includeFullText),
          pairedItem |-> [item |-> k - 1] ] ]

\* items.forEach((item, index) => ...): one record per element, in order.
MultipleItemRecords(result, items, includeFullText, i) ==
    [ k \in 1..Len(items) |->
        [ json |-> ("itemIndex" :> (k - 1)) @@ ("totalItems" :> Len(items))
                   @@ formatExtractionResult(result, items[k], includeFullText),
          pairedItem |-> [item |-> i] ] ]

\* Mutant of SingleItemRecords: nothing is pushed when no data was extracted.
SingleItemRecordsSkippingNull(result, extractedData, includeFullText, i) ==
    IF extractedData = JNull THEN <<>>
    ELSE << [ json |-> formatExtractionResult(result, extractedData, includeFullText),
              pairedItem |-> [item |-> i] ] >>

\* Single item or fallback.
SingleItemRecords(result, extractedData, includeFullText, i) ==
    << [ json |-> formatExtractionResult(result, extractedData, includeFullText),
         pairedItem |-> [item |-> i] ] >>

\* Mutant of TakesItemsBranch: the extractMultiple flag is not consulted.
TakesItemsBranchIgnoringFlag(extractMultiple, extractedData) ==
    /\ Truthy(extractedData)
    /\ Truthy(GetProp(extractedData, "items"))
    /\ IsArray(GetProp(extractedData, "items"))

\* Mutant of TakesItemsBranch: an empty `items` array falls through to the
\* single-item branch.
TakesItemsBranchWhenNonEmpty(extractMultiple, extractedData) ==
    /\ extractMultiple
    /\ Truthy(extractedData)
    /\ Truthy(GetProp(extractedData, "items"))
    /\ IsArray(GetProp(extractedData, "items"))
    /\ Len(GetProp(extractedData, "items").a) > 0

\* if (extractMultiple && extractedData && extractedData.items && Array.isArray(extractedData.items))
TakesItemsBranch(extractMultiple, extractedData) ==
    /\ extractMultiple
    /\ Truthy(extractedData)
    /\ Truthy(GetProp(extractedData, "items"))
    /\ IsArray(GetProp(extractedData, "items"))

\* The records execute pushes for the result of item i.
LlmRecordsOf(result, extractMultiple, includeFullText, i) ==
    LET extractedData == parseExtractedJson(result)
    IN IF TakesItemsBranch(extractMultiple, extractedData)
       THEN MultipleItemRecords(result, GetProp(extractedData, "items").a, includeFullText, i)
       ELSE SingleItemRecords(result, extractedData, includeFullText, i)

\* Mutant of LlmErrorRecord: the record is paired with the first input item.
LlmErrorRecordPairedWithFirst(items, i, error) ==
    [ json |-> items[i + 1].json,
      error |-> NodeOperationError(error.message),
      pairedItem |-> [item |-> 0] ]

\* catch (error) with continueOnFail(): the record pushed for item i.
LlmErrorRecord(items, i, error) ==
    [ json |-> items[i + 1].json,
      error |-> NodeOperationError(error.message),
      pairedItem |-> [item |-> i] ]

\* ------------------------------------------------------------------ multi-URL crawl
\* urlsString.split(',').map(url => url.trim()).filter(url => url)
NonEmptyText(text) == text # <<>>

ParseUrls(urlsString) ==
    LET pieces == SplitComma(urlsString)
    IN SelectSeq([k \in 1..Len(pieces) |-> Trim(pieces[k])], NonEmptyText)

NotValidUrl(url) == ~isValidUrl(url)

\* new NodeOperationError(node, message, { itemIndex: i })
NodeOperationErrorAt(message, i) ==
    [name |-> "NodeOperationError", message |-> message, itemIndex |-> i]

\* Mutant of MultiPrepare: the entries that are not well-formed are dropped
\* and the others are crawled.
MultiPrepareSkippingInvalid(p, i) ==
    LET urls == SelectSeq(ParseUrls(p.urls), isValidUrl)
        browserConfig == createBrowserConfig(p.browserOptions)
    IN IF p.urls = <<>>
       THEN Raise(NodeOperationErrorAt(Words(<<"URLs", "cannot", "be", "empty.">>), i))
       ELSE IF Len(urls) = 0
       THEN Raise(NodeOperationErrorAt(Words(<<"No", "valid", "URLs", "provided.">>), i))
       ELSE [ ok |-> TRUE,
              params |-> p,
              urls |-> urls,
              config |-> createCrawlerRunConfig(JObj(
                  ("maxConcurrent" :> IF Truthy(GetProp(p.options, "maxConcurrent"))
                                      THEN GetProp(p.options, "maxConcurrent") ELSE JNum(5))
                  @@ browserConfig.o @@ p.crawlerOptions.o)),
              includeMedia |-> GetProp(p.options, "includeMedia"),
              verboseResponse |-> GetProp(p.options, "verboseResponse") ]

\* The synchronous part of one iteration of the multi-URL crawl.
MultiPrepare(p, i) ==
    LET urls == ParseUrls(p.urls)
        invalidUrls == SelectSeq(urls, NotValidUrl)
        browserConfig == createBrowserConfig(p.browserOptions)
    IN IF p.urls = <<>>
       THEN Raise(NodeOperationErrorAt(Words(<<"URLs", "cannot", "be", "empty.">>), i))
       ELSE IF Len(urls) = 0
       THEN Raise(NodeOperationErrorAt(Words(<<"No", "valid", "URLs", "provided.">>), i))
       ELSE IF Len(invalidUrls) > 0
       THEN Raise(NodeOperationErrorAt(
                Cat(Words(<<"Invalid", "URLs:">>) \o <<" ">>, JoinComma(invalidUrls)), i))
       ELSE [ ok |-> TRUE,
              params |-> p,
              urls |-> urls,
              config |-> createCrawlerRunConfig(JObj(
                  ("maxConcurrent" :> IF Truthy(GetProp(p.options, "maxConcurrent"))
                                      THEN GetProp(p.options, "maxConcurrent") ELSE JNum(5))
                  @@ browserConfig.o @@ p.crawlerOptions.o)),
              includeMedia |-> GetProp(p.options, "includeMedia"),
              verboseResponse |-> GetProp(p.options, "verboseResponse") ]

\* for (const result of results): one record per result, in order.
MultiRecordsOf(results, includeMedia, verboseResponse, i) ==
    [ k \in 1..Len(results) |->
        [ json |-> formatCrawlResult(results[k], includeMedia, verboseResponse),
          pairedItem |-> [item |-> i] ] ]

\* catch (error) with continueOnFail(): the record pushed for item i.
MultiErrorRecord(items, i, error) ==
    [ json |-> items[i + 1].json,
      error |-> NodeOperationErrorAt(error.message,
                    IF "itemIndex" \in DOMAIN error THEN error.itemIndex ELSE i),
      pairedItem |-> [item |-> i] ]

\* getCrawl4aiClient: the error it throws, or <<>>.
ClientError(credentials) ==
    IF ~Truthy(credentials)
    THEN <<PlainError(Words(<<"Crawl4AI", "credentials", "are", "not", "configured!">>))>>
    ELSE <<>>

\* ------------------------------------------------------------------ inputs
TitleField ==
    JObj([ name |-> JStr(<<"title">>), fieldType |-> JStr(<<"string">>),
           description |-> JStr(<<>>), required |-> JBool(TRUE) ])

PriceField ==
    JObj([ name |-> JStr(<<"price">>), fieldType |-> JStr(<<"number">>),
           description |-> JStr(<<"Price">>), required |-> JBool(FALSE) ])

LlmBaseParams ==
    [ url |-> <<"https://x.test">>,
      instruction |-> Words(<<"Extract", "titles">>),
      schemaType |-> "attributeDescriptions",
      schemaFieldsValues |-> <<TitleField>>,
      jsonExample |-> <<>>,
      jsonSchema |-> <<>>,
      browserOptions |-> EmptyObject,
      llmOptions |-> EmptyObject,
      options |-> EmptyObject ]

SingleItemOptions == JObj([extractMultiple |-> JBool(FALSE)])

\* What getNodeParameter can return for one item of the LLM extractor.
LlmItemParams ==
    { LlmBaseParams,
      [LlmBaseParams EXCEPT !.url = <<>>],
      [LlmBaseParams EXCEPT !.url = <<"not-a-url">>],
      [LlmBaseParams EXCEPT !.instruction = <<>>],
      [LlmBaseParams EXCEPT !.schemaFieldsValues = <<>>],
      [LlmBaseParams EXCEPT !.schemaFieldsValues = <<>>, !.options = SingleItemOptions],
      [LlmBaseParams EXCEPT !.schemaFieldsValues = <<TitleField, PriceField>>,
                            !.options = SingleItemOptions],
      [LlmBaseParams EXCEPT !.options = JObj([extractMultiple |-> JBool(TRUE),
                                               includeFullText |-> JBool(TRUE)])],
      [LlmBaseParams EXCEPT !.llmOptions = JObj([model |-> JStr(<<"llama3">>),
                                                  temperature |-> JNum(0)])],
      [LlmBaseParams EXCEPT !.schemaType = "jsonExample"],
      [LlmBaseParams EXCEPT !.schemaType = "jsonExample", !.jsonExample = <<" ">>],
      [LlmBaseParams EXCEPT !.schemaType = "jsonExample", !.jsonExample = <<"{\"a\":1}">>],
      [LlmBaseParams EXCEPT !.schemaType = "jsonExample", !.jsonExample = <<"{oops">>,
                            !.options = SingleItemOptions],
      [LlmBaseParams EXCEPT !.schemaType = "jsonSchema"],
      [LlmBaseParams EXCEPT !.schemaType = "jsonSchema", !.jsonSchema = <<"{oops">>],
      [LlmBaseParams EXCEPT !.schemaType = "jsonSchema", !.jsonSchema = <<"null">>],
      [LlmBaseParams EXCEPT !.schemaType = "jsonSchema", !.jsonSchema = <<"{\"type\":\"object\"}">>],
      [LlmBaseParams EXCEPT !.schemaType = "jsonSchema",
                            !.jsonSchema = <<"{\"properties\":{\"title\":{\"type\":\"string\"}}}">>],
      [LlmBaseParams EXCEPT !.schemaType = "jsonSchema", !.options = SingleItemOptions,
                            !.jsonSchema = <<"{\"type\":\"object\",\"properties\":{\"title\":{\"type\":\"string\"}}}">>],
      [LlmBaseParams EXCEPT !.schemaType = "css"] }

MultiBaseParams ==
    [ urls |-> <<"https://x.test", ",", " ", "https://y.test">>,
      browserOptions |-> EmptyObject,
      crawlerOptions |-> EmptyObject,
      options |-> EmptyObject ]

\* What getNodeParameter can return for one item of the multi-URL crawl.
MultiItemParams ==
    { MultiBaseParams,
      [MultiBaseParams EXCEPT !.urls = <<>>],
      [MultiBaseParams EXCEPT !.urls = <<" ", ",", " ">>],
      [MultiBaseParams EXCEPT !.urls = <<"https://x.test", ",", "not-a-url">>],
      [MultiBaseParams EXCEPT !.urls = <<" ", "https://x.test", " ", ",">>,
                              !.options = JObj([maxConcurrent |-> JNum(2),
                                                verboseResponse |-> JBool(TRUE)])] }

\* The credentials the host can hand out: none configured, LLM disabled, and
\* LLM enabled with a hosted and with a local provider.
CredentialChoices ==
    { Undefined,
      JObj([ enableLlm |-> JBool(FALSE), llmProvider |-> JStr(<<"openai">>),
             apiKey |-> JStr(<<"sk-1">>) ]),
      JObj([ enableLlm |-> JBool(TRUE), llmProvider |-> JStr(<<"openai">>),
             apiKey |-> JStr(<<"sk-1">>) ]),
      JObj([ enableLlm |-> JBool(TRUE), llmProvider |-> JStr(<<"ollama">>),
             ollamaUrl |-> JStr(<<"localhost:11434">>) ]) }

TransportError == PlainError(Words(<<"Request", "failed">>))

PageText == Words(<<"Page", "text">>)

\* The extracted_content texts the remote service can answer with.
ExtractedContents ==
    { <<"{\"items\":[{\"a\":1},{\"a\":2}]}">>,
      <<"{\"items\":[]}">>,
      <<"{\"items\":\"none\"}">>,
      <<"{\"title\":\"A\"}">>,
      <<"null">>,
      Words(<<"not", "json">>) }

\* How crawler.arun(url, ...) can end: it rejects, or it resolves with a result.
ArunOutcomes(url) ==
    { [kind |-> "reject", error |-> TransportError] }
    \cup { [ kind |-> "resolve",
             result |-> [ url |-> url, success |-> TRUE, markdown |-> PageText,
                          extracted_content |-> c ] ] : c \in ExtractedContents }
    \cup { [ kind |-> "resolve",
             result |-> [ url |-> url, success |-> FALSE,
                          error_message |-> Words(<<"Crawl", "failed">>) ] ] }

\* How crawler.crawlMultipleUrls(urls, ...) can end.
CrawlMultipleOutcomes(urls) ==
    { [kind |-> "reject", error |-> TransportError],
      [kind |-> "resolve", results |-> <<>>],
      [ kind |-> "resolve",
        results |-> [k \in 1..Len(urls) |->
                       [url |-> urls[k], success |-> TRUE, markdown |-> PageText]] ],
      [ kind |-> "resolve",
        results |-> [k \in 1..Len(urls) |->
                       IF k = 1
                       THEN [ url |-> urls[k], success |-> FALSE,
                              error_message |-> Words(<<"Crawl", "failed">>) ]
                       ELSE [url |-> urls[k], success |-> TRUE, markdown |-> PageText]] ] }

\* ------------------------------------------------------------------ state
VARIABLES
    op,              \* which operation runs: "llm" or "multi"
    items,           \* the input items (INodeExecutionData[])
    credentials,     \* what getCredentials('crawl4aiApi') resolves to
    continueOnFail,  \* what this.continueOnFail() returns
    pc,              \* "start", "loop", "client", "request" or "done"
    i,               \* the loop index
    cur,             \* the locals of the iteration that is awaiting
    allResults,      \* the output list under construction
    outcome,         \* how execute ended: returned value or thrown error
    paramReads,      \* log: the item indices whose parameters were read
    clientCalls,     \* log: the item indices getCrawl4aiClient was called for
    requests,        \* log: the item indices a crawl request was issued for
    inflight,        \* the item indices whose request has not resolved yet
    responses,       \* log: the results the remote service resolved with
    failures         \* log: the errors caught by the loop's catch block

vars ==
    << op, items, credentials, continueOnFail, pc, i, cur, allResults, outcome,
       paramReads, clientCalls, requests, inflight, responses, failures >>

config == <<op, items, credentials, continueOnFail>>

logs == <<paramReads, clientCalls, requests, inflight, responses, failures>>

Running == [kind |-> "running"]

Init ==
    /\ op \in {"llm", "multi"}
    /\ \E n \in 0..MaxItems : items = [k \in 1..n |-> [json |-> [id |-> k - 1]]]
    /\ credentials \in CredentialChoices
    /\ continueOnFail \in BOOLEAN
    /\ pc = IF op = "llm" THEN "start" ELSE "loop"
    /\ i = 0
    /\ cur = <<>>
    /\ allResults = <<>>
    /\ outcome = Running
    /\ paramReads = <<>>
    /\ clientCalls = <<>>
    /\ requests = <<>>
    /\ inflight = {}
    /\ responses = <<>>
    /\ failures = <<>>

\* ------------------------------------------------------------------ actions
Thrown(error) == [kind |-> "thrown", error |-> error]

Returned(value) == [kind |-> "returned", value |-> value]

ErrorRecordOf(error) ==
    IF op = "llm" THEN LlmErrorRecord(items, i, error) ELSE MultiErrorRecord(items, i, error)

\* Mutant of Catch: with continueOnFail() the error is dropped and the loop
\* continues without pushing a record.
CatchWithoutRecord(error, phase) ==
    /\ failures' = Append(failures, [item |-> i, phase |-> phase, error |-> error])
    /\ inflight' = inflight \ {i}
    /\ cur' = <<>>
    /\ IF continueOnFail
       THEN /\ i' = i + 1
            /\ pc' = "loop"
            /\ UNCHANGED <<allResults, outcome>>
       ELSE /\ outcome' = Thrown(error)
            /\ pc' = "done"
            /\ UNCHANGED <<allResults, i>>

\* Mutant of Catch: continueOnFail() is not consulted, the loop always goes on.
CatchAlwaysContinues(error, phase) ==
    /\ failures' = Append(failures, [item |-> i, phase |-> phase, error |-> error])
    /\ inflight' = inflight \ {i}
    /\ cur' = <<>>
    /\ allResults' = Append(allResults, ErrorRecordOf(error))
    /\ i' = i + 1
    /\ pc' = "loop"
    /\ outcome' = outcome

\* Mutant of Catch: an item whose remote call failed for the first time is
\* processed once more instead of being given up.
CatchRetriesOnce(error, phase) ==
    /\ failures' = Append(failures, [item |-> i, phase |-> phase, error |-> error])
    /\ inflight' = inflight \ {i}
    /\ cur' = <<>>
    /\ IF phase = "request" /\ \A k \in DOMAIN failures : failures[k].item # i
       THEN /\ pc' = "loop"
            /\ UNCHANGED <<allResults, i, outcome>>
       ELSE IF continueOnFail
       THEN /\ allResults' = Append(allResults, ErrorRecordOf(error))
            /\ i' = i + 1
            /\ pc' = "loop"
            /\ outcome' = outcome
       ELSE /\ outcome' = Thrown(error)
            /\ pc' = "done"
            /\ UNCHANGED <<allResults, i>>

\* catch (error) { if (this.continueOnFail()) { push; continue; } throw error; }
Catch(error, phase) ==
    /\ failures' = Append(failures, [item |-> i, phase |-> phase, error |-> error])
    /\ inflight' = inflight \ {i}
    /\ cur' = <<>>
    /\ IF continueOnFail
       THEN /\ allResults' = Append(allResults, ErrorRecordOf(error))
            /\ i' = i + 1
            /\ pc' = "loop"
            /\ outcome' = outcome
       ELSE /\ outcome' = Thrown(error)
            /\ pc' = "done"
            /\ UNCHANGED <<allResults, i>>

\* The LLM extractor before its loop: the credentials are awaited and the
\* feature flag is checked, outside the loop's try block.
LlmStart ==
    /\ op = "llm"
    /\ pc = "start"
    /\ IF ~Truthy(credentials)
       THEN /\ outcome' = Thrown(TypeErrorOf(Words(<<"Cannot", "read", "properties", "of",
                                                     "undefined">>)))
            /\ pc' = "done"
       ELSE IF ~Truthy(GetProp(credentials, "enableLlm"))
       THEN /\ outcome' = Thrown(NodeOperationError(Words(<<"LLM", "features", "are", "not",
                 "enabled", "in", "Crawl4AI", "credentials.", "Please", "enable", "them", "and",
                 "configure", "an", "LLM", "provider.">>)))
            /\ pc' = "done"
       ELSE /\ pc' = "loop"
            /\ outcome' = outcome
    /\ UNCHANGED <<config, i, cur, allResults, logs>>

\* One iteration of the LLM extractor from the loop head to its first await:
\* parameters, checks, schema, strategy, and the call of getCrawl4aiClient.
LlmIterate ==
    /\ op = "llm"
    /\ pc = "loop"
    /\ i < Len(items)
    /\ \E p \in LlmItemParams :
         LET prepared == LlmPrepare(p, credentials)
         IN /\ paramReads' = Append(paramReads, i)
            /\ IF prepared.ok
               THEN /\ cur' = prepared
                    /\ clientCalls' = Append(clientCalls, i)
                    /\ pc' = "client"
                    /\ UNCHANGED <<i, allResults, outcome, inflight, failures>>
               ELSE /\ Catch(prepared.error, "config")
                    /\ UNCHANGED clientCalls
    /\ UNCHANGED <<config, requests, responses>>

\* Mutant of LlmRequest: the request is issued but not awaited, and the loop
\* goes on to the next item.
LlmRequestNotAwaited ==
    /\ op = "llm"
    /\ pc = "client"
    /\ requests' = Append(requests, i)
    /\ inflight' = inflight \cup {i}
    /\ i' = i + 1
    /\ pc' = "loop"
    /\ UNCHANGED <<config, cur, allResults, outcome, failures, paramReads, clientCalls, responses>>

\* getCrawl4aiClient has resolved: crawler.arun(url, ...) is called.
LlmRequest ==
    /\ op = "llm"
    /\ pc = "client"
    /\ IF ClientError(credentials) # <<>>
       THEN /\ Catch(ClientError(credentials)[1], "client")
            /\ UNCHANGED requests
       ELSE /\ requests' = Append(requests, i)
            /\ inflight' = inflight \cup {i}
            /\ pc' = "request"
            /\ UNCHANGED <<i, cur, allResults, outcome, failures>>
    /\ UNCHANGED <<config, paramReads, clientCalls, responses>>

\* Mutant of ArunThrows: extracted_content is parsed without a guard, so text
\* that is not JSON throws into the catch block.
ArunThrowsOnBadJson(answer) ==
    IF answer.kind = "reject" THEN <<answer.error>>
    ELSE IF "extracted_content" \in DOMAIN answer.result
            /\ ~JsonParse(answer.result.extracted_content).ok
    THEN <<[name |-> "SyntaxError", message |-> SyntaxErrorMessage]>>
    ELSE <<>>

\* What `await crawler.arun(...)` and the handling of its result throw into the
\* catch block for this answer: the rejection, or nothing (<<>>); parsing and
\* formatting the result do not throw.
ArunThrows(answer) == IF answer.kind = "reject" THEN <<answer.error>> ELSE <<>>

\* crawler.arun has settled: the result is parsed and its records are pushed.
LlmResolve ==
    /\ op = "llm"
    /\ pc = "request"
    /\ \E answer \in ArunOutcomes(cur.url) :
         /\ responses' = IF answer.kind = "resolve"
                          THEN Append(responses, [ item |-> i,
                                                   extractMultiple |-> cur.extractMultiple,
                                                   result |-> answer.result ])
                          ELSE responses
         /\ IF ArunThrows(answer) # <<>>
            THEN Catch(ArunThrows(answer)[1], "request")
            ELSE /\ allResults' = allResults \o LlmRecordsOf(answer.result, cur.extractMultiple,
                                                              cur.includeFullText, i)
                 /\ inflight' = inflight \ {i}
                 /\ i' = i + 1
                 /\ cur' = <<>>
                 /\ pc' = "loop"
                 /\ UNCHANGED <<outcome, failures>>
    /\ UNCHANGED <<config, paramReads, clientCalls, requests>>

\* One iteration of the multi-URL crawl from the loop head to its first await.
MultiIterate ==
    /\ op = "multi"
    /\ pc = "loop"
    /\ i < Len(items)
    /\ \E p \in MultiItemParams :
         LET prepared == MultiPrepare(p, i)
         IN /\ paramReads' = Append(paramReads, i)
            /\ IF prepared.ok
               THEN /\ cur' = prepared
                    /\ clientCalls' = Append(clientCalls, i)
                    /\ pc' = "client"
                    /\ UNCHANGED <<i, allResults, outcome, inflight, failures>>
               ELSE /\ Catch(prepared.error, "config")
                    /\ UNCHANGED clientCalls
    /\ UNCHANGED <<config, requests, responses>>

\* getCrawl4aiClient has settled: it threw, or crawlMultipleUrls is called.
MultiRequest ==
    /\ op = "multi"
    /\ pc = "client"
    /\ IF ClientError(credentials) # <<>>
       THEN /\ Catch(ClientError(credentials)[1], "client")
            /\ UNCHANGED requests
       ELSE /\ requests' = Append(requests, i)
            /\ inflight' = inflight \cup {i}
            /\ pc' = "request"
            /\ UNCHANGED <<i, cur, allResults, outcome, failures>>
    /\ UNCHANGED <<config, paramReads, clientCalls, responses>>

\* crawler.crawlMultipleUrls has settled: one record per result is pushed.
MultiResolve ==
    /\ op = "multi"
    /\ pc = "request"
    /\ \E answer \in CrawlMultipleOutcomes(cur.urls) :
         /\ responses' = IF answer.kind = "resolve"
                          THEN Append(responses, [item |-> i, results |-> answer.results])
                          ELSE responses
         /\ IF answer.kind = "reject"
            THEN Catch(answer.error, "request")
            ELSE /\ allResults' = allResults \o MultiRecordsOf(answer.results, cur.includeMedia,
                                                                cur.verboseResponse, i)
                 /\ inflight' = inflight \ {i}
                 /\ i' = i + 1
                 /\ cur' = <<>>
                 /\ pc' = "loop"
                 /\ UNCHANGED <<outcome, failures>>
    /\ UNCHANGED <<config, paramReads, clientCalls, requests>>

\* i = items.length: return allResults.
Return ==
    /\ pc = "loop"
    /\ i >= Len(items)
    /\ outcome' = Returned(allResults)
    /\ pc' = "done"
    /\ UNCHANGED <<config, i, cur, allResults, logs>>

Next ==
    \/ LlmStart
    \/ LlmIterate
    \/ LlmRequest
    \/ LlmResolve
    \/ MultiIterate
    \/ MultiRequest
    \/ MultiResolve
    \/ Return

Spec == Init /\ [][Next]_vars

\* ------------------------------------------------------------------ strategy building on its own
\* The strategy step alone, over a wider range of inputs than the loops above
\* draw from: either the synchronous part of one iteration of the LLM
\* extractor (op = "build") or one call of createLlmExtractionStrategy
\* (op = "create").  cur holds the inputs and, once the step has run, what it
\* produced.

\* A second field named title, declared as a number.
TitleAsNumberField ==
    JObj([ name |-> JStr(<<"title">>), fieldType |-> JStr(<<"number">>),
           description |-> JStr(<<>>), required |-> JBool(FALSE) ])

FieldChoices == {TitleField, PriceField, TitleAsNumberField}

\* The attribute lists of at most MaxFields fields.
FieldLists == UNION { [1..n -> FieldChoices] : n \in 0..MaxFields }

MultipleItemOptions == JObj([extractMultiple |-> JBool(TRUE)])

SchemaVariants ==
    { [LlmBaseParams EXCEPT !.schemaFieldsValues = f] : f \in FieldLists }
    \cup { [LlmBaseParams EXCEPT !.schemaType = "jsonExample", !.jsonExample = e] :
             e \in {<<>>, <<"{\"a\":1}">>, <<"{\"title\":\"A\"}">>, <<"{oops">>} }
    \cup { [LlmBaseParams EXCEPT !.schemaType = "jsonSchema", !.jsonSchema = e] :
             e \in { <<>>, <<"{oops">>, <<"null">>, <<"{\"a\":1}">>, <<"{\"type\":\"object\"}">>,
                     <<"{\"properties\":{\"title\":{\"type\":\"string\"}}}">>,
                     <<" ", "{\"type\":\"object\",\"properties\":{\"title\":{\"type\":\"string\"}}}">> } }

\* The five sampling options as the node names them, at 0 and outside the
\* ranges the node documents.
SamplingAtZero ==
    JObj([ temperature |-> JNum(0), maxTokens |-> JNum(0), topP |-> JNum(0),
           frequencyPenalty |-> JNum(0), presencePenalty |-> JNum(0) ])

SamplingOutOfRange ==
    JObj([ temperature |-> JNum(5), maxTokens |-> JNum(-1), topP |-> JNum(2),
           frequencyPenalty |-> JNum(-3), presencePenalty |-> JNum(3) ])

LlmOptionChoices ==
    { EmptyObject,
      SamplingAtZero,
      SamplingOutOfRange,
      JObj([temperature |-> JNum(0)]),
      JObj([model |-> JStr(<<" ">>), topP |-> JNum(1)]),
      JObj([model |-> JStr(<<"llama3">>), maxTokens |-> JNum(100)]) }

\* URL texts: well-formed, empty, blank, padded, without a scheme, and two
\* URLs in one text.
UrlChoices ==
    { <<"https://x.test">>, <<>>, <<" ">>, <<" ", "https://y.test", "\n">>, <<"not-a-url">>,
      <<"https://x.test", " ", "https://y.test">> }

InstructionChoices == {Words(<<"Extract", "titles">>), <<>>, <<" ">>}

\* What getNodeParameter can return for the item whose strategy is built.
StrategyItemParams ==
    { [v EXCEPT !.instruction = ins, !.options = o, !.llmOptions = lo] :
        v \in SchemaVariants,
        ins \in {Words(<<"Extract", "titles">>), Words(<<"List", "the", "jobs.">>)},
        o \in {EmptyObject, SingleItemOptions, MultipleItemOptions},
        lo \in LlmOptionChoices }
    \cup { [v EXCEPT !.url = u, !.instruction = ins, !.options = o] :
             v \in SchemaVariants,
             u \in UrlChoices,
             ins \in InstructionChoices,
             o \in {EmptyObject, SingleItemOptions} }

\* Credentials with which the loop is reached (LLM features enabled).
StrategyCredentials ==
    { JObj([enableLlm |-> JBool(TRUE)]),
      JObj([ enableLlm |-> JBool(TRUE), llmProvider |-> JStr(<<"openai">>),
             apiKey |-> JStr(<<"sk-1">>) ]),
      JObj([ enableLlm |-> JBool(TRUE), llmProvider |-> JStr(<<"groq">>),
             apiKey |-> JStr(<<"none">>) ]),
      JObj([ enableLlm |-> JBool(TRUE), llmProvider |-> JStr(<<"ollama">>),
             apiKey |-> JStr(<<"sk-1">>), ollamaUrl |-> JStr(<<" ", "localhost:11434">>) ]),
      JObj([ enableLlm |-> JBool(TRUE), llmProvider |-> JStr(<<"ollama">>),
             ollamaUrl |-> JStr(<<"https://ollama.test">>) ]),
      JObj([enableLlm |-> JBool(TRUE), llmProvider |-> JStr(<<"ollama">>)]) }

\* The sampling keys of the extraArgs argument.
SamplingKeys == {"temperature", "max_tokens", "top_p", "frequency_penalty", "presence_penalty"}

ExtraArgsChoices ==
    {Undefined}
    \cup { JObj([k \in ks |-> JNum(0)]) : ks \in SUBSET SamplingKeys }
    \cup { JObj([k \in ks |-> JNum(IF k = "max_tokens" THEN -1 ELSE 5)]) :
             ks \in SUBSET SamplingKeys }
    \cup { JObj([ extraction_type |-> JStr(<<"block">>), apply_chunking |-> JBool(TRUE),
                  force_json_response |-> JBool(FALSE), temperature |-> JNum(1) ]) }

\* The schema of the quick test command of the testing guide.
TestGuideSchema ==
    JObj([ title |-> JStr(<<"Test">>),
           type |-> JStr(<<"object">>),
           properties |-> JObj([ items |-> JObj([ name |-> JStr(<<"items">>),
                                                  type |-> JStr(<<"array">>) ]) ]),
           required |-> JArr(<<JStr(<<"items">>)>>) ])

\* The provider and the key the testing guides pass.
TestGuideProvider == <<"openai/gpt-4o">>

TestGuideKey == JStr(<<"test-key">>)

\* The arguments of a call of createLlmExtractionStrategy.
CreateArguments ==
    [ schema : {ItemsWrapperSchema(Words(<<"Array", "of", "extracted", "items">>)),
                TestGuideSchema},
      instruction : {Words(<<"Extract", "titles">>)},
      provider : {<<"openai">>, <<"anthropic">>, <<"ollama">>, <<>>, TestGuideProvider},
      apiKey : {Undefined, JStr(<<>>), JStr(<<" ">>), JStr(<<"none">>), JStr(<<"sk-1">>),
                TestGuideKey},
      extraArgs : ExtraArgsChoices,
      ollamaUrl : {Undefined, JStr(<<"http://localhost:11434">>)},
      model : {Undefined, JStr(<<>>), JStr(<<"gpt-4o">>)} ]

\* What the user can type between two commas of the URL text.
UrlEntries ==
    { <<"https://x.test">>, <<" ", "https://y.test", " ">>, <<"not-a-url">>,
      <<"\t", "ftp//bad">>, <<"bad", " ", "url">>, <<>>, <<" ">> }

\* The entries typed one after the other with a comma between them.
RECURSIVE CommaSeparated(_)
CommaSeparated(entries) ==
    IF Len(entries) = 1 THEN entries[1]
    ELSE entries[1] \o <<",">> \o CommaSeparated(Tail(entries))

\* The URL texts of up to MaxUrls entries.
UrlTexts ==
    UNION { {CommaSeparated(es) : es \in [1..n -> UrlEntries]} : n \in 1..MaxUrls }

\* What getNodeParameter can return for the item of a multi-URL crawl.
CrawlItemParams == { [MultiBaseParams EXCEPT !.urls = u] : u \in UrlTexts }

StrategyInit ==
    /\ op \in {"build", "create", "crawl"}
    /\ items = <<[json |-> [id |-> 0]]>>
    /\ credentials \in (IF op = "build" THEN StrategyCredentials ELSE {Undefined})
    /\ continueOnFail = FALSE
    /\ pc = "call"
    /\ i = 0
    /\ cur \in (IF op = "build"
                THEN {[params |-> p] : p \in StrategyItemParams}
                ELSE IF op = "create"
                THEN {[args |-> a] : a \in CreateArguments}
                ELSE {[params |-> p] : p \in CrawlItemParams})
    /\ allResults = <<>>
    /\ outcome = Running
    /\ paramReads = <<>>
    /\ clientCalls = <<>>
    /\ requests = <<>>
    /\ inflight = {}
    /\ responses = <<>>
    /\ failures = <<>>

\* One iteration of the LLM extractor, from the parameter reads to the built
\* strategy and the call of getCrawl4aiClient (or the error thrown on the way).
StrategyBuild ==
    /\ op = "build"
    /\ pc = "call"
    /\ cur' = [params |-> cur.params, built |-> LlmPrepare(cur.params, credentials)]
    /\ paramReads' = Append(paramReads, i)
    /\ clientCalls' = IF LlmPrepare(cur.params, credentials).ok
                      THEN Append(clientCalls, i) ELSE clientCalls
    /\ pc' = "built"
    /\ UNCHANGED <<config, i, allResults, outcome, requests, inflight, responses, failures>>

\* One call of createLlmExtractionStrategy.
StrategyCreate ==
    /\ op = "create"
    /\ pc = "call"
    /\ cur' = [ args |-> cur.args,
                descriptor |-> createLlmExtractionStrategy(
                    cur.args.schema, cur.args.instruction, cur.args.provider,
                    cur.args.apiKey, cur.args.extraArgs, cur.args.ollamaUrl,
                    cur.args.model) ]
    /\ pc' = "built"
    /\ UNCHANGED <<config, i, allResults, outcome, logs>>

\* One iteration of the multi-URL crawl, from the parameter reads to the call
\* of getCrawl4aiClient (or the error thrown on the way).
CrawlBuild ==
    /\ op = "crawl"
    /\ pc = "call"
    /\ cur' = [params |-> cur.params, built |-> MultiPrepare(cur.params, i)]
    /\ paramReads' = Append(paramReads, i)
    /\ clientCalls' = IF MultiPrepare(cur.params, i).ok
                      THEN Append(clientCalls, i) ELSE clientCalls
    /\ pc' = "built"
    /\ UNCHANGED <<config, i, allResults, outcome, requests, inflight, responses, failures>>

StrategyNext ==
    \/ StrategyBuild
    \/ StrategyCreate
    \/ CrawlBuild

StrategySpec == StrategyInit /\ [][StrategyNext]_vars

\* ------------------------------------------------------------------ properties
\* The elements of a log, as a set.
Range(log) == {log[k] : k \in 1..Len(log)}

\* The output records tagged with input item j, in output order.
RecordsFor(j) ==
    LET tagged(r) == r.pairedItem.item = j
    IN SelectSeq(allResults, tagged)

IsErrorRecord(r) == "error" \in DOMAIN r

\* The responses of the LLM extractor whose extracted_content is present.
HasContent(resp) == "extracted_content" \in DOMAIN resp.result

\* The extracted_content of a response parses, and to an object whose `items`
\* field is an array.
HasItemsArray(resp) ==
    /\ HasContent(resp)
    /\ JsonParse(resp.result.extracted_content).ok
    /\ LET v == JsonParse(resp.result.extracted_content).value
       IN v.t = "obj" /\ "items" \in DOMAIN v.o /\ v.o.items.t = "arr"

ItemsArrayOf(resp) == JsonParse(resp.result.extracted_content).value.o.items.a

\* C1: in both execute loops the items are taken in index order, one at a
\* time: parameters are read for items 0, 1, 2, ... in that order, requests
\* are issued in strictly increasing item order, every request but the last
\* issued one has resolved, and at most one request (that of the current
\* item) is in flight.
C1_Sequential ==
    /\ \A k \in 1..Len(paramReads) : paramReads[k] = k - 1
    /\ \A k \in 1..(Len(requests) - 1) : requests[k] < requests[k + 1]
    /\ \A k \in 1..(Len(requests) - 1) : requests[k] \notin inflight
    /\ Cardinality(inflight) <= 1
    /\ \A j \in inflight : j = i /\ pc = "request"

\* The second item's request is in flight after the first one's has resolved.
C1_Witness ==
    /\ Len(requests) = 2
    /\ inflight = {1}
    /\ Len(responses) + Len(failures) = 1

\* C2: in multiple-item mode, a response whose parsed content has an array
\* `items` of length n yields exactly n records for its input item, the k-th
\* built from items[k], with itemIndex = k (0-based) and totalItems = n.
C2_OneRecordPerItem ==
    op = "llm" =>
      \A m \in 1..Len(responses) :
        LET resp == responses[m]
        IN (resp.extractMultiple /\ HasItemsArray(resp)) =>
             /\ Len(RecordsFor(resp.item)) = Len(ItemsArrayOf(resp))
             /\ \A k \in 1..Len(ItemsArrayOf(resp)) :
                  /\ ~IsErrorRecord(RecordsFor(resp.item)[k])
                  /\ RecordsFor(resp.item)[k].json.data = ItemsArrayOf(resp)[k]
                  /\ RecordsFor(resp.item)[k].json.itemIndex = k - 1
                  /\ RecordsFor(resp.item)[k].json.totalItems = Len(ItemsArrayOf(resp))

\* A two-element `items` array was answered in multiple-item mode and execute
\* has returned.
C2_Witness ==
    /\ op = "llm"
    /\ outcome.kind = "returned"
    /\ \E m \in 1..Len(responses) :
         /\ responses[m].extractMultiple
         /\ HasItemsArray(responses[m])
         /\ Len(ItemsArrayOf(responses[m])) = 2

\* C3: when multiple-item mode is off, or the parsed content has no array
\* `items`, a resolved request yields exactly one record for its input item,
\* built from the whole parsed value (null when there is none), and without
\* itemIndex and totalItems.
C3_SingleRecord ==
    op = "llm" =>
      \A m \in 1..Len(responses) :
        LET resp == responses[m]
            whole == IF HasContent(resp) /\ JsonParse(resp.result.extracted_content).ok
                     THEN JsonParse(resp.result.extracted_content).value
                     ELSE JNull
        IN (~resp.extractMultiple \/ ~HasItemsArray(resp)) =>
             /\ Len(RecordsFor(resp.item)) = 1
             /\ ~IsErrorRecord(RecordsFor(resp.item)[1])
             /\ RecordsFor(resp.item)[1].json.data = whole
             /\ "itemIndex" \notin DOMAIN RecordsFor(resp.item)[1].json
             /\ "totalItems" \notin DOMAIN RecordsFor(resp.item)[1].json

\* An `items` array was answered with multiple-item mode off, and an object
\* without `items` with the mode on.
C3_Witness ==
    /\ op = "llm"
    /\ outcome.kind = "returned"
    /\ \E m \in 1..Len(responses) : ~responses[m].extractMultiple /\ HasItemsArray(responses[m])
    /\ \E m \in 1..Len(responses) :
         /\ responses[m].extractMultiple
         /\ HasContent(responses[m])
         /\ ~HasItemsArray(responses[m])

\* The extracted_content of a response is present and is not valid JSON.
ContentNotJson(resp) ==
    HasContent(resp) /\ ~JsonParse(resp.result.extracted_content).ok

FailedItems == {failures[k].item : k \in 1..Len(failures)}

\* C4 as claimed: extracted_content that is not valid JSON yields zero records
\* for its input item and raises nothing.
C4_ZeroRecordsOnBadJson ==
    op = "llm" =>
      \A m \in 1..Len(responses) :
        ContentNotJson(responses[m]) =>
          /\ Len(RecordsFor(responses[m].item)) = 0
          /\ responses[m].item \notin FailedItems

\* C4, amended: extracted_content that is not valid JSON raises nothing and
\* yields exactly one record for its input item, the single-item fallback,
\* whose extracted value is null and which has no itemIndex and totalItems.
C4_FallbackRecordOnBadJson ==
    op = "llm" =>
      \A m \in 1..Len(responses) :
        ContentNotJson(responses[m]) =>
          /\ responses[m].item \notin FailedItems
          /\ Len(RecordsFor(responses[m].item)) = 1
          /\ ~IsErrorRecord(RecordsFor(responses[m].item)[1])
          /\ RecordsFor(responses[m].item)[1].json.data = JNull
          /\ "itemIndex" \notin DOMAIN RecordsFor(responses[m].item)[1].json

\* `not json` was answered in multiple-item mode and in single-item mode.
C4_Witness ==
    /\ op = "llm"
    /\ \E m \in 1..Len(responses) : ContentNotJson(responses[m]) /\ responses[m].extractMultiple
    /\ \E m \in 1..Len(responses) : ContentNotJson(responses[m]) /\ ~responses[m].extractMultiple

\* C5: a parse failure of extracted_content for item j never aborts the
\* batch: it is not caught as an error, no error record is pushed for j, the
\* loop goes on to item j + 1, and, continue-on-failure on or off, a run in
\* which nothing else fails reads the parameters of every item and returns.
C5_ParseFailureDoesNotAbort ==
    op = "llm" =>
      \A m \in 1..Len(responses) :
        ContentNotJson(responses[m]) =>
          /\ responses[m].item \notin FailedItems
          /\ \A k \in 1..Len(RecordsFor(responses[m].item)) :
               ~IsErrorRecord(RecordsFor(responses[m].item)[k])
          /\ i > responses[m].item
          /\ (outcome.kind = "thrown" =>
                failures # <<>> /\ failures[Len(failures)].item > responses[m].item)
          /\ (pc = "done" /\ failures = <<>> =>
                outcome.kind = "returned" /\ Len(paramReads) = Len(items))

\* With continue-on-failure off, the first of two items was answered with text
\* that is not JSON, the second item was processed and execute returned.
C5_Witness ==
    /\ op = "llm"
    /\ ~continueOnFail
    /\ Len(items) = 2
    /\ outcome.kind = "returned"
    /\ \E m \in 1..Len(responses) : ContentNotJson(responses[m]) /\ responses[m].item = 0
    /\ Len(responses) = 2

\* C6: every record pushed in a step, data record or error record, carries
\* pairedItem.item equal to the index of the item being processed in that
\* step, and records already pushed are never retagged.
C6_PairedWithCurrentItem ==
    [][ /\ Len(allResults') >= Len(allResults)
        /\ SubSeq(allResults', 1, Len(allResults)) = allResults
        /\ \A k \in (Len(allResults) + 1)..Len(allResults') :
             allResults'[k].pairedItem.item = i ]_vars

\* The returned list holds a data record of one item and an error record of
\* another.
C6_Witness ==
    /\ outcome.kind = "returned"
    /\ \E a, b \in 1..Len(outcome.value) :
         /\ IsErrorRecord(outcome.value[a])
         /\ ~IsErrorRecord(outcome.value[b])
         /\ outcome.value[a].pairedItem.item = 1
         /\ outcome.value[b].pairedItem.item = 0

\* C7: with continue-on-failure on, an item j whose processing fails (a
\* failed check, a schema error, an unavailable client or a rejected request)
\* has exactly one record in the output, which carries the error and the
\* item's own json; j has no data record; the loop goes on to item j + 1 and
\* execute returns after reading the parameters of every item.
C7_OneErrorRecordPerFailure ==
    continueOnFail =>
      /\ \A f \in 1..Len(failures) :
           LET j == failures[f].item
           IN /\ Len(RecordsFor(j)) = 1
              /\ IsErrorRecord(RecordsFor(j)[1])
              /\ RecordsFor(j)[1].error.message = failures[f].error.message
              /\ RecordsFor(j)[1].json = items[j + 1].json
              /\ i > j
      /\ (failures # <<>> /\ pc = "done" =>
            outcome.kind = "returned" /\ Len(paramReads) = Len(items))

\* With continue-on-failure on, the first of two items failed a check, the
\* second item's request was rejected, and execute returned.
C7_Witness ==
    /\ continueOnFail
    /\ outcome.kind = "returned"
    /\ Len(failures) = 2
    /\ failures[1].phase = "config"
    /\ failures[2].phase = "request"

\* C8: with continue-on-failure off, the first failing item j makes execute
\* throw that very error: nothing is returned, and no parameter is read, no
\* client obtained and no request issued for an item after j.
C8_FirstFailureHalts ==
    (~continueOnFail /\ failures # <<>>) =>
      /\ Len(failures) = 1
      /\ pc = "done"
      /\ outcome = Thrown(failures[1].error)
      /\ \A j \in Range(paramReads) \cup Range(clientCalls) \cup Range(requests) :
           j <= failures[1].item
      /\ i = failures[1].item
      /\ inflight = {}

\* With continue-on-failure off, the first of two items failed after its
\* request had been issued.
C8_Witness ==
    /\ ~continueOnFail
    /\ Len(items) = 2
    /\ Len(failures) = 1
    /\ failures[1].item = 0
    /\ failures[1].phase = "request"
    /\ outcome.kind = "thrown"

\* C9 as claimed: with the LLM feature flag disabled and continue-on-failure
\* on, the LLM extractor ends by returning a list that holds exactly one
\* error record for each input item.
C9_DisabledFlagCaptured ==
    ( /\ op = "llm"
      /\ Truthy(credentials)
      /\ ~Truthy(GetProp(credentials, "enableLlm"))
      /\ continueOnFail
      /\ Len(items) > 0
      /\ pc = "done" ) =>
        /\ outcome.kind = "returned"
        /\ \A j \in 0..(Len(items) - 1) :
             Len(RecordsFor(j)) = 1 /\ IsErrorRecord(RecordsFor(j)[1])

\* The configuration checks of the LLM extractor, stated on the parameters of
\* an item: URL present and well-formed, instruction present, the schema
\* definition of the chosen variant present, an explicit JSON schema valid JSON
\* with `type` and `properties`, a known schema variant.
PassesConfigChecks(p) ==
    /\ p.url # <<>>
    /\ Len(Trim(p.url)) = 1 /\ Trim(p.url)[1] \in UrlWellFormed
    /\ p.instruction # <<>>
    /\ p.schemaType \in {"attributeDescriptions", "jsonExample", "jsonSchema"}
    /\ p.schemaType = "attributeDescriptions" => p.schemaFieldsValues # <<>>
    /\ p.schemaType = "jsonExample" => Trim(p.jsonExample) # <<>>
    /\ p.schemaType = "jsonSchema" =>
         /\ Trim(p.jsonSchema) # <<>>
         /\ JsonParse(p.jsonSchema).ok
         /\ JsonParse(p.jsonSchema).value.t = "obj"
         /\ {"type", "properties"} \subseteq DOMAIN JsonParse(p.jsonSchema).value.o

\* C10: in the LLM extractor the client is obtained and the request issued
\* only for an item that has passed every configuration check, with the
\* feature flag enabled: an item that fails a check is in neither log.
C10_ChecksBeforeRequest ==
    op = "llm" =>
      /\ (pc \in {"client", "request"} =>
            /\ PassesConfigChecks(cur.params)
            /\ Truthy(GetProp(credentials, "enableLlm"))
            /\ clientCalls[Len(clientCalls)] = i)
      /\ \A f \in 1..Len(failures) :
           failures[f].phase = "config" =>
             failures[f].item \notin Range(clientCalls) \cup Range(requests)
      /\ Range(requests) \subseteq Range(clientCalls)
      /\ (~Truthy(credentials) \/ ~Truthy(GetProp(credentials, "enableLlm")) =>
            clientCalls = <<>> /\ requests = <<>>)

\* With continue-on-failure on, one item failed a check and the next item's
\* request is in flight.
C10_Witness ==
    /\ op = "llm"
    /\ pc = "request"
    /\ \E f \in 1..Len(failures) : failures[f].phase = "config"
    /\ Len(requests) = 1

\* ------------------------------------------------------------------ properties of the built strategy
\* The strategy step of one iteration has run.
Built == op = "build" /\ pc = "built"

\* ... and has produced a strategy.
BuiltOk == Built /\ cur.built.ok

\* ... and has thrown.
BuiltError == Built /\ ~cur.built.ok

\* The strategy handed to crawler.arun, its schema and its LLM parameters.
StrategySent == cur.built.config.extractionStrategy

SchemaSent == StrategySent.params.schema.value

LlmParamsSent == StrategySent.params.llm_config.params

\* createLlmExtractionStrategy has been called and has returned.
Created == op = "create" /\ pc = "built"

\* The fixed wrapper: title ExtractedItems, type object, the single property
\* items of type array, required = [items].
IsItemsWrapper(schema) ==
    /\ schema.t = "obj"
    /\ GetProp(schema, "title") = JStr(<<"ExtractedItems">>)
    /\ GetProp(schema, "type") = JStr(<<"object">>)
    /\ GetProp(schema, "properties").t = "obj"
    /\ DOMAIN GetProp(schema, "properties").o = {"items"}
    /\ GetProp(GetProp(GetProp(schema, "properties"), "items"), "type") = JStr(<<"array">>)
    /\ GetProp(schema, "required") = JArr(<<JStr(<<"items">>)>>)

\* C11: whenever multiple-item extraction is on, the schema of the built
\* strategy is the fixed items wrapper, whichever schema variant the user
\* chose.  (Refuted: the explicit JSON schema is sent as parsed.)
C11_WrapperInMultipleMode ==
    (BuiltOk /\ cur.built.extractMultiple) => IsItemsWrapper(SchemaSent)

\* The declared names of an attribute list, as object keys.
DeclaredNames(fields) == {Flatten(fields[k].o.name.s) : k \in 1..Len(fields)}

\* C12: for an attribute list with multiple-item extraction off, the keys of
\* the schema's properties are exactly the declared field names and every
\* declared field finds its own declared type under its name.  (Refuted: of
\* two fields with the same name only the later one's type is kept.)
C12_PropertiesAreTheDeclaredFields ==
    (BuiltOk /\ cur.params.schemaType = "attributeDescriptions" /\ ~cur.built.extractMultiple) =>
      LET fields == cur.params.schemaFieldsValues
          props == GetProp(SchemaSent, "properties")
      IN /\ props.t = "obj"
         /\ DOMAIN props.o = DeclaredNames(fields)
         /\ \A k \in 1..Len(fields) :
              GetProp(props.o[Flatten(fields[k].o.name.s)], "type")
                = GetProp(fields[k], "fieldType")

\* C13: with multiple-item extraction off the schema of the built strategy is
\* the user's own: the declared fields of the attribute list, the structure
\* (the keys) of the JSON example, the explicit JSON schema as parsed.
\* (Refuted: for a JSON example the schema is a fixed one that does not
\* depend on the example.)
C13_UserSchemaInSingleMode ==
    (BuiltOk /\ ~cur.built.extractMultiple) =>
      LET props == GetProp(SchemaSent, "properties")
          example == JsonParse(cur.params.jsonExample)
      IN CASE cur.params.schemaType = "attributeDescriptions" ->
                /\ props.t = "obj"
                /\ DOMAIN props.o = DeclaredNames(cur.params.schemaFieldsValues)
           [] cur.params.schemaType = "jsonExample" ->
                (example.ok /\ example.value.t = "obj") =>
                  /\ props.t = "obj"
                  /\ DOMAIN props.o = DOMAIN example.value.o
           [] cur.params.schemaType = "jsonSchema" ->
                SchemaSent = JsonParse(cur.params.jsonSchema).value
           [] OTHER -> TRUE

\* text contains phrase as a run of consecutive fragments.
Contains(text, phrase) ==
    \E k \in 1..(Len(text) - Len(phrase) + 1) :
        SubSeq(text, k, k + Len(phrase) - 1) = phrase

\* The part of the instruction sent that follows the user's instruction.
DirectiveSent ==
    SubSeq(StrategySent.params.instruction, Len(cur.params.instruction) + 1,
           Len(StrategySent.params.instruction))

\* The instruction sent starts with the user's instruction, and more follows.
InstructionExtended ==
    /\ Len(StrategySent.params.instruction) > Len(cur.params.instruction)
    /\ SubSeq(StrategySent.params.instruction, 1, Len(cur.params.instruction))
         = cur.params.instruction

AsksForAllItems(text) == Contains(text, Words(<<"extract", "ALL", "items", "found">>))

\* "If no items are found, return an empty array", the sentence ending there
\* or going on.
AsksForEmptyArray(text) ==
    \E last \in {"array.", "array"} :
        Contains(text, Words(<<"If", "no", "items", "are", "found", ",",
                               "return", "an", "empty", last>>))

\* "an array of objects" whose fields are the declared names, listed.
AsksForObjectsWithFields(text, fields) ==
    /\ Contains(text, Words(<<"an", "array", "of", "objects">>))
    /\ Contains(text, Cat(FieldNames(fields), <<".">>))

\* C14 as stated: in multiple-item mode the appended directive, for every
\* schema variant, has the phrase, asks for an array of objects with the
\* declared field names and asks for an empty array when nothing matches.
C14_DirectiveNamesTheFields ==
    (BuiltOk /\ cur.built.extractMultiple) =>
      /\ InstructionExtended
      /\ AsksForAllItems(DirectiveSent)
      /\ AsksForObjectsWithFields(DirectiveSent, cur.params.schemaFieldsValues)
      /\ AsksForEmptyArray(DirectiveSent)

\* C14, amended: in multiple-item mode the instruction sent is the user's
\* instruction followed by a directive that has the phrase "extract ALL items
\* found" and asks for an empty array when no items are found, for every
\* schema variant; the directive asks for an array of objects with the
\* declared field names for the attribute list, and only for it.
C14_DirectiveAppended ==
    (BuiltOk /\ cur.built.extractMultiple) =>
      /\ InstructionExtended
      /\ AsksForAllItems(DirectiveSent)
      /\ AsksForEmptyArray(DirectiveSent)
      /\ (cur.params.schemaType = "attributeDescriptions"
            <=> AsksForObjectsWithFields(DirectiveSent, cur.params.schemaFieldsValues))

\* A strategy was built in multiple-item mode for an explicit JSON schema.
C14_Witness ==
    /\ BuiltOk
    /\ cur.built.extractMultiple
    /\ cur.params.schemaType = "jsonSchema"
    /\ InstructionExtended

\* ------------------------------------------------------------------ properties of createLlmExtractionStrategy
\* The arguments of the call and the LLM parameters of what it returned.
LlmParamsCreated == cur.descriptor.params.llm_config.params

\* The provider and the model execute passes on: credentials.llmProvider ||
\* 'openai' and (llmOptions.model || 'gpt-4o').trim().
ProviderConfigured == OrElse(GetProp(credentials, "llmProvider"), JStr(<<"openai">>)).s

ModelConfigured == Trim(OrElse(GetProp(cur.params.llmOptions, "model"), JStr(<<"gpt-4o">>)).s)

\* C15: every descriptor createLlmExtractionStrategy returns, called directly
\* with any arguments or by execute, has extraction_type = schema,
\* apply_chunking = false and force_json_response = true.
C15_FixedPolicyFields ==
    /\ Created =>
         /\ cur.descriptor.params.extraction_type = "schema"
         /\ cur.descriptor.params.apply_chunking = FALSE
         /\ cur.descriptor.params.force_json_response = TRUE
    /\ BuiltOk =>
         /\ StrategySent.params.extraction_type = "schema"
         /\ StrategySent.params.apply_chunking = FALSE
         /\ StrategySent.params.force_json_response = TRUE

\* The call was made with extra arguments that name the three fields.
C15_Witness ==
    /\ Created
    /\ Truthy(cur.args.extraArgs)
    /\ GetProp(cur.args.extraArgs, "apply_chunking") = JBool(TRUE)
    /\ GetProp(cur.args.extraArgs, "extraction_type") = JStr(<<"block">>)
    /\ cur.descriptor.params.extraction_type = "schema"

\* C16 as stated: api_token is attached exactly when the provider is not
\* ollama and the key is present, non-empty and not "none".
C16_TokenIffKeyNonEmpty ==
    Created =>
      ("api_token" \in DOMAIN LlmParamsCreated
         <=> /\ cur.args.provider # <<"ollama">>
             /\ cur.args.apiKey # Undefined
             /\ cur.args.apiKey.s # <<>>
             /\ cur.args.apiKey.s # <<"none">>)

\* C16, amended: api_token is attached exactly when the provider is not
\* ollama and the key is present, is not empty or made of whitespace only, and
\* is not "none"; the token is the key as passed; for ollama no api_token is
\* attached whatever the key.
C16_TokenIffKeyNotBlank ==
    /\ Created =>
         /\ "api_token" \in DOMAIN LlmParamsCreated
              <=> /\ cur.args.provider # <<"ollama">>
                  /\ cur.args.apiKey # Undefined
                  /\ Trim(cur.args.apiKey.s) # <<>>
                  /\ cur.args.apiKey.s # <<"none">>
         /\ "api_token" \in DOMAIN LlmParamsCreated
              => LlmParamsCreated.api_token = cur.args.apiKey
    /\ (BuiltOk /\ ProviderConfigured = <<"ollama">>) =>
         "api_token" \notin DOMAIN LlmParamsSent

\* The call was made for ollama with a real key, and no token was attached.
C16_Witness ==
    /\ Created
    /\ cur.args.provider = <<"ollama">>
    /\ cur.args.apiKey = JStr(<<"sk-1">>)
    /\ "api_token" \notin DOMAIN LlmParamsCreated

\* The model names an identifier of the model can end with.
ModelTexts == {<<"gpt-4o">>, <<"gemma3:1b">>, <<"llama3">>}

\* C17 as stated: the provider identifier is always provider/model (the model
\* passed, when one is passed); for ollama the endpoint URL passed becomes
\* base_url; for every other provider there is no base_url.
C17_CompositeProviderAlways ==
    Created =>
      /\ \E m \in ModelTexts :
           /\ Truthy(cur.args.model) => m = cur.args.model.s
           /\ LlmParamsCreated.provider = JStr(Cat(Cat(cur.args.provider, <<"/">>), m))
      /\ (cur.args.provider = <<"ollama">> /\ Truthy(cur.args.ollamaUrl)) =>
           /\ "base_url" \in DOMAIN LlmParamsCreated
           /\ LlmParamsCreated.base_url = cur.args.ollamaUrl
      /\ cur.args.provider # <<"ollama">> => "base_url" \notin DOMAIN LlmParamsCreated

\* C17, amended: with a non-empty model the identifier is provider/model
\* (ollama/model for ollama); without one it is ollama/gemma3:1b for ollama,
\* and otherwise the provider alone, or openai/gpt-4o when the provider is
\* empty too.  base_url is set exactly for ollama with an endpoint URL passed,
\* to that URL.  execute passes its trimmed model and the configured provider.
C17_CompositeWhenModelGiven ==
    /\ Created =>
         /\ LlmParamsCreated.provider =
              JStr(IF Truthy(cur.args.model)
                   THEN Cat(Cat(cur.args.provider, <<"/">>), cur.args.model.s)
                   ELSE IF cur.args.provider = <<"ollama">> THEN <<"ollama/gemma3:1b">>
                   ELSE IF cur.args.provider # <<>> THEN cur.args.provider
                   ELSE <<"openai/gpt-4o">>)
         /\ "base_url" \in DOMAIN LlmParamsCreated
              <=> (cur.args.provider = <<"ollama">> /\ Truthy(cur.args.ollamaUrl))
         /\ "base_url" \in DOMAIN LlmParamsCreated
              => LlmParamsCreated.base_url = cur.args.ollamaUrl
    /\ BuiltOk =>
         /\ ModelConfigured # <<>> =>
              LlmParamsSent.provider
                = JStr(Cat(Cat(ProviderConfigured, <<"/">>), ModelConfigured))
         /\ "base_url" \in DOMAIN LlmParamsSent
              <=> /\ ProviderConfigured = <<"ollama">>
                  /\ Truthy(GetProp(credentials, "ollamaUrl"))

\* The call was made for a hosted provider without a model.
C17_Witness ==
    /\ Created
    /\ cur.args.provider = <<"anthropic">>
    /\ cur.args.model = Undefined
    /\ LlmParamsCreated.provider = JStr(<<"anthropic">>)

\* The node's sampling options and the LLM parameters they become.
SamplingOptionKeys ==
    [ temperature |-> "temperature", maxTokens |-> "max_tokens", topP |-> "top_p",
      frequencyPenalty |-> "frequency_penalty", presencePenalty |-> "presence_penalty" ]

\* The LLM options of an item without its sampling options.
WithoutSampling(llmOptions) ==
    JObj([k \in DOMAIN llmOptions.o \ DOMAIN SamplingOptionKeys |-> llmOptions.o[k]])

\* C18: each of the five sampling parameters is among the strategy's LLM
\* parameters exactly when it was supplied, with the supplied value (0 and
\* out-of-range values included), in a direct call and through execute; and
\* an item is rejected with sampling options exactly when it is without them.
C18_SamplingCopiedVerbatim ==
    /\ Created =>
         \A key \in SamplingKeys :
           /\ key \in DOMAIN LlmParamsCreated
                <=> (Truthy(cur.args.extraArgs) /\ key \in DOMAIN cur.args.extraArgs.o)
           /\ key \in DOMAIN LlmParamsCreated
                => LlmParamsCreated[key] = cur.args.extraArgs.o[key]
    /\ BuiltOk =>
         \A name \in DOMAIN SamplingOptionKeys :
           /\ SamplingOptionKeys[name] \in DOMAIN LlmParamsSent
                <=> name \in DOMAIN cur.params.llmOptions.o
           /\ name \in DOMAIN cur.params.llmOptions.o
                => LlmParamsSent[SamplingOptionKeys[name]] = cur.params.llmOptions.o[name]
    /\ Built =>
         cur.built.ok
           = LlmPrepare([cur.params EXCEPT !.llmOptions = WithoutSampling(@)], credentials).ok

\* A strategy was built for an item with out-of-range sampling options.
C18_Witness ==
    /\ BuiltOk
    /\ cur.params.llmOptions = SamplingOutOfRange
    /\ LlmParamsSent.max_tokens = JNum(-1)

\* ------------------------------------------------------------------ properties of the schema checks
\* The explicit schema text parses to an object that has both fields.
HasTypeAndProperties(jsonSchema) ==
    /\ JsonParse(jsonSchema).ok
    /\ JsonParse(jsonSchema).value.t = "obj"
    /\ "type" \in DOMAIN JsonParse(jsonSchema).value.o
    /\ "properties" \in DOMAIN JsonParse(jsonSchema).value.o

\* C19: with the explicit JSON schema an item gets a strategy only if the
\* schema text parses as JSON and the parsed value has a type and a properties
\* field; otherwise the item ends with a NodeOperationError.
C19_ExplicitSchemaValidated ==
    (Built /\ cur.params.schemaType = "jsonSchema") =>
      /\ cur.built.ok => HasTypeAndProperties(cur.params.jsonSchema)
      /\ ~HasTypeAndProperties(cur.params.jsonSchema) =>
           /\ ~cur.built.ok
           /\ cur.built.error.name = "NodeOperationError"

\* An explicit schema that parses and has a type but no properties was
\* rejected.
C19_Witness ==
    /\ BuiltError
    /\ cur.params.schemaType = "jsonSchema"
    /\ JsonParse(cur.params.jsonSchema).ok
    /\ Truthy(GetProp(JsonParse(cur.params.jsonSchema).value, "type"))
    /\ GetProp(JsonParse(cur.params.jsonSchema).value, "properties") = Undefined

\* C20: an attribute list with no fields, with multiple-item extraction
\* switched off, is rejected with a NodeOperationError: "At least one schema
\* field must be defined ..." when the URL and the instruction pass the checks
\* that come first.
C20_ZeroFieldsRejected ==
    ( /\ Built
      /\ cur.params.schemaType = "attributeDescriptions"
      /\ Len(cur.params.schemaFieldsValues) = 0
      /\ GetProp(cur.params.options, "extractMultiple") = JBool(FALSE) ) =>
      /\ ~cur.built.ok
      /\ cur.built.error.name = "NodeOperationError"
      /\ (isValidUrl(cur.params.url) /\ cur.params.instruction # <<>>) =>
           Contains(cur.built.error.message,
                    Words(<<"At", "least", "one", "schema", "field", "must", "be", "defined">>))

\* The empty attribute list in single-item mode has been rejected.
C20_Witness ==
    /\ BuiltError
    /\ cur.params.schemaType = "attributeDescriptions"
    /\ cur.params.schemaFieldsValues = <<>>
    /\ cur.params.options = SingleItemOptions
    /\ isValidUrl(cur.params.url)
    /\ cur.params.instruction # <<>>

\* C21: an item whose instruction is empty, or whose URL is empty or not a
\* well-formed absolute URL, ends with a NodeOperationError before
\* getCrawl4aiClient is called, whatever its schema variant and options.
C21_EmptyInstructionOrBadUrlRejected ==
    ( /\ Built
      /\ \/ cur.params.instruction = <<>>
         \/ cur.params.url = <<>>
         \/ ~isValidUrl(cur.params.url) ) =>
      /\ ~cur.built.ok
      /\ cur.built.error.name = "NodeOperationError"
      /\ clientCalls = <<>>

\* An explicit JSON schema item with a good URL and an empty instruction was
\* rejected.
C21_Witness ==
    /\ BuiltError
    /\ cur.params.schemaType = "jsonSchema"
    /\ isValidUrl(cur.params.url)
    /\ cur.params.instruction = <<>>
    /\ Contains(cur.built.error.message, Words(<<"instructions", "cannot", "be", "empty.">>))

\* ------------------------------------------------------------------ text cleaning
\* text.replace(/\s+/g, ' '): every run of whitespace becomes one space.
RECURSIVE CollapseWhitespace(_)
CollapseWhitespace(text) ==
    IF text = <<>> THEN <<>>
    ELSE IF IsWhitespace(Head(text)) THEN <<" ">> \o CollapseWhitespace(TrimStart(Tail(text)))
    ELSE <<Head(text)>> \o CollapseWhitespace(Tail(text))

\* Mutant of cleanText: whitespace is collapsed two characters at a time
\* (/\s\s/g).
RECURSIVE CollapsePairs(_)
CollapsePairs(text) ==
    IF Len(text) < 2 THEN text
    ELSE IF IsWhitespace(text[1]) /\ IsWhitespace(text[2])
    THEN <<" ">> \o CollapsePairs(Tail(Tail(text)))
    ELSE <<Head(text)>> \o CollapsePairs(Tail(text))

cleanTextByPairs(text) == Trim(CollapsePairs(text))

\* Clean text by removing extra whitespace and normalizing.
cleanText(text) == Trim(CollapseWhitespace(text))

\* Object.entries(data) of an object, an array (its indices "0", "1", ... are
\* its keys), a number or a boolean (no entries).
ObjectEntries(data) ==
    CASE data.t = "obj" -> data.o
      [] data.t = "arr" ->
           [ key \in {ToString(k - 1) : k \in 1..Len(data.a)} |->
               data.a[CHOOSE k \in 1..Len(data.a) : ToString(k - 1) = key] ]
      [] data.t \in {"num", "bool"} -> <<>>

\* Clean extracted data by removing extra whitespace.
RECURSIVE cleanExtractedData(_)
cleanExtractedData(data) ==
    IF ~Truthy(data) THEN EmptyObject
    ELSE LET entries == ObjectEntries(data)
             cleanItem(item) ==
                 CASE item.t = "str" -> JStr(cleanText(item.s))
                   [] item.t \in {"obj", "arr"} -> cleanExtractedData(item)
                   [] OTHER -> item
             cleanValue(value) ==
                 CASE value.t = "str" -> JStr(cleanText(value.s))
                   [] value.t = "arr" ->
                        JArr([k \in 1..Len(value.a) |-> cleanItem(value.a[k])])
                   [] value.t = "obj" -> cleanExtractedData(value)
                   [] OTHER -> value
         IN JObj([key \in DOMAIN entries |-> cleanValue(entries[key])])

\* A string with whitespace at both ends and a run of three inside.
UncleanText == <<" ", "a", " ", "\n", "\t", "b", "\t">>

CleanLeaves == {JNull, JBool(FALSE), JNum(0), JStr(UncleanText), JStr(<<"a", " ", "b">>)}

\* The JSON values nested at most depth deep.
RECURSIVE JsonValues(_)
JsonValues(depth) ==
    IF depth = 0 THEN CleanLeaves
    ELSE JsonValues(depth - 1)
         \cup {JArr(<<>>)}
         \cup {JArr(<<v>>) : v \in JsonValues(depth - 1)}
         \cup {JArr(<<JStr(UncleanText), v>>) : v \in JsonValues(depth - 1)}
         \cup {JObj([name |-> v]) : v \in JsonValues(depth - 1)}

\* The data cleanExtractedData is called with: records, and no data at all.
CleanRecords ==
    {JNull, Undefined, EmptyObject}
    \cup {JObj([data |-> v]) : v \in JsonValues(MaxDepth)}
    \cup {JObj([title |-> JStr(UncleanText), price |-> JNum(0), tags |-> v]) : v \in JsonValues(1)}

\* The strings cleanText is called with.
CleanTexts ==
    { <<>>, <<" ">>, <<"\n", "\t">>, UncleanText, <<"a", " ", "b">>, <<"a">>,
      <<"a", ",", " ", " ", "b">>, <<"\t", "a", "\n", "\n", "\n", "\n", "b">> }

\* cur.input is what was passed first, cur.value the latest result and
\* cur.applied the number of times the function has been applied.
CleanInit ==
    /\ op \in {"cleanData", "cleanText"}
    /\ items = <<>>
    /\ credentials = Undefined
    /\ continueOnFail = FALSE
    /\ pc = "call"
    /\ i = 0
    /\ cur \in { [input |-> x, value |-> x, applied |-> 0] :
                   x \in (IF op = "cleanData" THEN CleanRecords ELSE CleanTexts) }
    /\ allResults = <<>>
    /\ outcome = Running
    /\ paramReads = <<>>
    /\ clientCalls = <<>>
    /\ requests = <<>>
    /\ inflight = {}
    /\ responses = <<>>
    /\ failures = <<>>

\* cleanExtractedData is applied to the latest value.
CleanData ==
    /\ op = "cleanData"
    /\ cur.applied < MaxCleanings
    /\ cur' = [cur EXCEPT !.value = cleanExtractedData(@), !.applied = @ + 1]
    /\ UNCHANGED <<config, pc, i, allResults, outcome, logs>>

\* cleanText is applied to the latest value.
CleanText ==
    /\ op = "cleanText"
    /\ cur.applied < MaxCleanings
    /\ cur' = [cur EXCEPT !.value = cleanText(@), !.applied = @ + 1]
    /\ UNCHANGED <<config, pc, i, allResults, outcome, logs>>

CleanNext ==
    \/ CleanData
    \/ CleanText

CleanSpec == CleanInit /\ [][CleanNext]_vars

\* ------------------------------------------------------------------ properties of text cleaning
\* C22: cleaning is idempotent: once cleanExtractedData (cleanText) has been
\* applied, applying it again returns the same record (string).
C22_CleaningIdempotent ==
    [][cur.applied >= 1 => cur'.value = cur.value]_vars

\* A record that cleaning changed has been cleaned a second time.
C22_Witness ==
    /\ op = "cleanData"
    /\ cur.applied = 2
    /\ cur.value # cur.input
    /\ cur.input.t = "obj"

\* after is before with every string leaf collapsed and trimmed and nothing
\* else changed: objects keep their keys, arrays stay arrays of their length.
RECURSIVE ShapeKept(_, _)
ShapeKept(before, after) ==
    CASE before.t = "obj" ->
           /\ after.t = "obj"
           /\ DOMAIN after.o = DOMAIN before.o
           /\ \A key \in DOMAIN before.o : ShapeKept(before.o[key], after.o[key])
      [] before.t = "arr" ->
           /\ after.t = "arr"
           /\ Len(after.a) = Len(before.a)
           /\ \A k \in 1..Len(before.a) : ShapeKept(before.a[k], after.a[k])
      [] before.t = "str" -> after = JStr(Trim(CollapseWhitespace(before.s)))
      [] OTHER -> after = before

\* C23: cleanExtractedData keeps the shape of a record at every depth.
\* (Refuted: an array nested directly inside an array comes back as an object
\* keyed by its indices.)
C23_ShapeKeptAtEveryDepth ==
    (op = "cleanData" /\ cur.applied = 1 /\ cur.input.t = "obj") =>
      ShapeKept(cur.input, cur.value)

\* ------------------------------------------------------------------ properties of the multi-URL crawl
\* The max-concurrent-crawls option of the item being processed, 5 by default.
MaxConcurrentChosen ==
    IF Truthy(GetProp(cur.params.options, "maxConcurrent"))
    THEN GetProp(cur.params.options, "maxConcurrent") ELSE JNum(5)

\* C24: the crawler configuration handed to crawlMultipleUrls carries the
\* max-concurrent-crawls option chosen by the user (default 5).
\* (Refuted: createCrawlerRunConfig builds a new object without that key.)
C24_MaxConcurrentForwarded ==
    (op = "multi" /\ pc = "request") =>
      GetProp(cur.config, "maxConcurrent") = MaxConcurrentChosen

\* ------------------------------------------------------------------ properties of the run as a whole
\* C25: no local retry: every remote request is for a different input item,
\* so there are never more requests than input items.
C25_AtMostOneRequestPerItem ==
    /\ Len(requests) <= Len(items)
    /\ \A a, b \in DOMAIN requests : a # b => requests[a] # requests[b]
    /\ \A a \in DOMAIN requests : requests[a] \in 0..(Len(items) - 1)

\* A run has returned in which the request of the first item failed and was
\* not repeated before the second item was requested.
C25_Witness ==
    /\ outcome.kind = "returned"
    /\ requests = <<0, 1>>
    /\ \E k \in DOMAIN failures : failures[k].item = 0 /\ failures[k].phase = "request"

\* ------------------------------------------------------------------ properties of the documented call
\* createLlmExtractionStrategy has been called as the testing guides call it:
\* provider 'openai/gpt-4o', key 'test-key', no model argument.
CalledAsInGuides ==
    /\ Created
    /\ cur.args.provider = TestGuideProvider
    /\ cur.args.apiKey = TestGuideKey
    /\ cur.args.model = Undefined

\* C26: called as the testing guides call it, createLlmExtractionStrategy
\* returns an LLMExtractionStrategy whose llm_config is an LLMConfig with the
\* provider string unchanged and api_token equal to the key, and whose schema
\* is {type: dict, value: the schema passed in}.
C26_GuideCallDescriptor ==
    CalledAsInGuides =>
      /\ cur.descriptor.type = "LLMExtractionStrategy"
      /\ cur.descriptor.params.llm_config.type = "LLMConfig"
      /\ "provider" \in DOMAIN LlmParamsCreated
      /\ LlmParamsCreated["provider"] = JStr(cur.args.provider)
      /\ "api_token" \in DOMAIN LlmParamsCreated
      /\ LlmParamsCreated["api_token"] = cur.args.apiKey
      /\ cur.descriptor.params.schema = [type |-> "dict", value |-> cur.args.schema]

\* The quick test command of the guide has run: four arguments only.
C26_Witness ==
    /\ CalledAsInGuides
    /\ cur.args.schema = TestGuideSchema
    /\ cur.args.extraArgs = Undefined
    /\ cur.args.ollamaUrl = Undefined

\* ------------------------------------------------------------------ properties of the returned list
\* Reading the list from start to end, pairedItem.item never decreases.
PairedItemNeverDecreases(records) ==
    \A a, b \in DOMAIN records :
      a < b => records[a].pairedItem.item <= records[b].pairedItem.item

\* C27: the records are grouped by input item and the groups appear in input
\* order, in the list being built and in the list execute returns.
C27_GroupedInInputOrder ==
    /\ PairedItemNeverDecreases(allResults)
    /\ \A k \in DOMAIN allResults : allResults[k].pairedItem.item \in 0..(Len(items) - 1)
    /\ outcome.kind = "returned" =>
         /\ outcome.value = allResults
         /\ PairedItemNeverDecreases(outcome.value)

\* A list has been returned with two records of the first item followed by
\* two of the second.
C27_Witness ==
    /\ outcome.kind = "returned"
    /\ Len(outcome.value) = 4
    /\ Len(RecordsFor(0)) = 2
    /\ Len(RecordsFor(1)) = 2

\* The extracted_content of a response parses to an object whose `items`
\* field is the empty array.
HasEmptyItemsArray(resp) ==
    /\ HasItemsArray(resp)
    /\ GetProp(JsonParse(resp.result.extracted_content).value, "items") = JArr(<<>>)

\* C28: in multiple-item mode a response whose `items` is an empty array gives
\* its input item no record at all, neither a data nor an error record.
C28_EmptyItemsNoRecord ==
    op = "llm" =>
      \A k \in DOMAIN responses :
        (responses[k].extractMultiple /\ HasEmptyItemsArray(responses[k])) =>
          /\ RecordsFor(responses[k].item) = <<>>
          /\ \A f \in DOMAIN failures : failures[f].item # responses[k].item

\* A run over one item has returned the empty list after a successful request
\* that answered with an empty `items` array.
C28_Witness ==
    /\ op = "llm"
    /\ outcome = Returned(<<>>)
    /\ Len(items) = 1
    /\ requests = <<0>>
    /\ failures = <<>>
    /\ Len(responses) = 1
    /\ responses[1].extractMultiple
    /\ responses[1].result.success
    /\ HasEmptyItemsArray(responses[1])

\* ------------------------------------------------------------------ properties of the field check
\* The item uses the attribute list, declares no field, and multiple-item
\* extraction is on (as it is by default).
ZeroFieldsInMultipleMode ==
    /\ Built
    /\ cur.params.schemaType = "attributeDescriptions"
    /\ Len(cur.params.schemaFieldsValues) = 0
    /\ ExtractMultipleOf(cur.params.options)

\* C29: the zero-field check does not depend on the multiple-item flag: with
\* the flag on, an empty attribute list is rejected with a NodeOperationError
\* (the "At least one schema field" one when URL and instruction pass their
\* checks) and getCrawl4aiClient is never called, so no request is issued.
C29_ZeroFieldsRejectedInMultipleMode ==
    ZeroFieldsInMultipleMode =>
      /\ ~cur.built.ok
      /\ cur.built.error.name = "NodeOperationError"
      /\ clientCalls = <<>>
      /\ (isValidUrl(cur.params.url) /\ cur.params.instruction # <<>>) =>
           Contains(cur.built.error.message,
                    Words(<<"At", "least", "one", "schema", "field", "must", "be", "defined">>))

\* The empty attribute list has been rejected with the flag explicitly on.
C29_Witness ==
    /\ ZeroFieldsInMultipleMode
    /\ BuiltError
    /\ GetProp(cur.params.options, "extractMultiple") = JBool(TRUE)
    /\ isValidUrl(cur.params.url)
    /\ cur.params.instruction # <<>>
    /\ clientCalls = <<>>

\* ------------------------------------------------------------------ properties of the URL list
\* The first step of one iteration of the multi-URL crawl has run.
CrawlBuilt == op = "crawl" /\ pc = "built"

\* The pieces of the URL text between its commas, in order.
RECURSIVE PiecesBetweenCommas(_)
PiecesBetweenCommas(text) ==
    IF \A k \in DOMAIN text : text[k] # "," THEN <<text>>
    ELSE LET c == CHOOSE k \in DOMAIN text :
                    text[k] = "," /\ \A j \in 1..(k - 1) : text[j] # ","
         IN <<SubSeq(text, 1, c - 1)>> \o PiecesBetweenCommas(SubSeq(text, c + 1, Len(text)))

\* Every fragment of the text is whitespace.
IsBlank(text) == \A k \in DOMAIN text : text[k] \in {" ", "\n", "\t"}

\* The entries that remain: the pieces that are not blank, without the
\* whitespace around them.
RemainingEntries ==
    LET pieces == PiecesBetweenCommas(cur.params.urls)
        kept == {k \in DOMAIN pieces : ~IsBlank(pieces[k])}
        nth(n) == CHOOSE k \in kept : Cardinality({j \in kept : j <= k}) = n
    IN [n \in 1..Cardinality(kept) |-> Trim(pieces[nth(n)])]

\* The remaining entries that are not well-formed URLs, in order.
InvalidEntries == SelectSeq(RemainingEntries, NotValidUrl)

\* C30: when any remaining entry of the URL text is not a well-formed URL the
\* whole item is rejected with a NodeOperationError naming the invalid
\* entries, and getCrawl4aiClient is never called, so no request is issued.
C30_AnyInvalidUrlRejectsItem ==
    (CrawlBuilt /\ InvalidEntries # <<>>) =>
      /\ ~cur.built.ok
      /\ cur.built.error.name = "NodeOperationError"
      /\ cur.built.error.message =
           <<"Invalid", " ", "URLs:", " ">> \o JoinComma(InvalidEntries)
      /\ clientCalls = <<>>

\* An item with a well-formed entry, a blank one and an invalid one has been
\* rejected.
C30_Witness ==
    /\ CrawlBuilt
    /\ ~cur.built.ok
    /\ Len(RemainingEntries) = 2
    /\ Len(InvalidEntries) = 1
    /\ \E k \in DOMAIN cur.params.urls : cur.params.urls[k] = "https://x.test"
    /\ Len(PiecesBetweenCommas(cur.params.urls)) = 3
    /\ clientCalls = <<>>

====
